---- MODULE Spec2Model ----
(***************************************************************************)
(* State-machine model of the zaphwork escrow program (src/src/lib.rs).    *)
(*                                                                         *)
(* One instruction of the program is one action.  An action evaluates the  *)
(* Anchor account constraints of the instruction's context struct, then    *)
(* the handler body, statement by statement, producing a result            *)
(*   [err, rec, bal, issued]                                               *)
(* (error code or "Ok", the record as the handler left it, the vault       *)
(* balance, the outbound vault transfers issued before it returned).  The  *)
(* host applies an instruction atomically: the result is committed only    *)
(* when err = "Ok"; otherwise every account keeps its old contents.        *)
(* `last` remembers the outcome of the latest instruction.                 *)
(*                                                                         *)
(* Not modelled: event emission, rent, PDA derivation and bumps, the mint  *)
(* and token-account constraints of the destination accounts, and the      *)
(* timestamps that are written but never read (created_at, released_at,    *)
(* refunded_at, frozen_at, closed_at).  The payer's own token account is   *)
(* taken to hold enough for the inbound transfer of a fund instruction.    *)
(***************************************************************************)
EXTENDS Integers, Sequences, FiniteSets, TLC

\* ------------------------------------------------------------------------
\* Program constants (lib.rs 13-46)
\* ------------------------------------------------------------------------
DEFAULT_FEE_BPS == 1000
EMPLOYMENT_FEE_BPS == 500
MIN_ESCROW_AMOUNT == 1000000
BPS_DENOMINATOR == 10000
MAX_POOL_WORKERS == 10000
MAX_ESCROW_DURATION == 365 * 24 * 60 * 60
EXPECTED_ADMIN == "deployer"

\* ------------------------------------------------------------------------
\* Bounds of the model
\* ------------------------------------------------------------------------
\* Width of the model's unsigned word.  The program's u64 has 64 bits; TLC's
\* integers have 32, so checked arithmetic overflows at 2^WordBits - 1 here.
WordBits == 29
\* The clock runs over 0..MaxTime.
MaxTime == 2
\* Largest max_releases a pool is created with (besides the rejected ones).
MaxReleases == 2
\* Odd part of the second amount the model funds records with, so that the
\* fee divisions leave remainders.
AmountOdd == 15

U64_MAX == 2^WordBits - 1

\* ------------------------------------------------------------------------
\* Identities
\* ------------------------------------------------------------------------
DefaultPubkey == "default"          \* Pubkey::default(), the all-zero key
OffCurveKey == "pda"                \* a key that is not on the ed25519 curve
TreasuryKey == "treasury"
MintKey == "mint"                   \* the token mint passed to a create instruction
VaultKey == "vault"                 \* the vault token account it initialises
Signers == {"deployer", "alice", "bob", "hot"}

is_on_curve(k) == k # OffCurveKey

\* Option<T>
None == [some |-> FALSE, v |-> 0]
Some(x) == [some |-> TRUE, v |-> x]
NoKey == [some |-> FALSE, v |-> DefaultPubkey]
NoBool == [some |-> FALSE, v |-> FALSE]

\* ------------------------------------------------------------------------
\* Checked arithmetic (u64::checked_add / checked_sub / checked_mul)
\* ------------------------------------------------------------------------
Ok(x) == [ok |-> TRUE, v |-> x]
Overflow == [ok |-> FALSE, v |-> 0]

checked_add(a, b) == IF a > U64_MAX - b THEN Overflow ELSE Ok(a + b)
checked_sub(a, b) == IF a < b THEN Overflow ELSE Ok(a - b)
checked_mul(a, b) == IF b # 0 /\ a > U64_MAX \div b THEN Overflow ELSE Ok(a * b)

\* floor(amount * bps / BPS_DENOMINATOR) with the product taken in a wider
\* type: amount = q * D + r gives q * bps + floor(r * bps / D), the same
\* number, without leaving TLC's integers.
WideMulDiv(amount, bps) ==
    (amount \div BPS_DENOMINATOR) * bps
        + ((amount % BPS_DENOMINATOR) * bps) \div BPS_DENOMINATOR

\* Faulty variant: the product is taken in the 64-bit word itself.
calculate_fee_in_u64(amount, fee_bps) ==
    LET product == checked_mul(amount, fee_bps)
    IN  IF ~product.ok THEN Overflow ELSE Ok(product.v \div BPS_DENOMINATOR)

calculate_fee(amount, fee_bps) ==
    LET fee == WideMulDiv(amount, fee_bps)
    IN  IF fee > U64_MAX THEN Overflow ELSE Ok(fee)

\* ------------------------------------------------------------------------
\* State
\* ------------------------------------------------------------------------
VARIABLES
    config,       \* PlatformConfig account
    escrow,       \* EscrowAccount
    vault,        \* token balance of the escrow's vault
    paid,         \* tokens received from the escrow's vault, per destination
    settlements,  \* number of settlement instructions that succeeded
    pool,         \* PoolEscrowAccount
    poolVault,    \* token balance of the pool's vault
    poolPaid,     \* tokens received from the pool's vault, per destination
    now,          \* Clock::get()?.unix_timestamp
    last,         \* outcome of the latest instruction
    calc          \* a helper function's inputs and result, where one is examined

vars == <<config, escrow, vault, paid, settlements, pool, poolVault, poolPaid, now, last,
          calc>>
escrowVars == <<escrow, vault, paid, settlements>>
poolVars == <<pool, poolVault, poolPaid>>

NoConfig ==
    [init |-> FALSE, admin |-> DefaultPubkey, treasury |-> DefaultPubkey,
     platform_authority |-> DefaultPubkey, paused |-> FALSE, pending_admin |-> NoKey]

NoEscrow ==
    [acct |-> "uninit", escrow_id |-> 0, client |-> DefaultPubkey,
     worker |-> DefaultPubkey, mint |-> DefaultPubkey, vault |-> DefaultPubkey,
     worker_amount |-> 0, total_amount |-> 0,
     platform_fee_bps |-> 0, escrow_type |-> "Task", status |-> "Created",
     funded_at |-> None, deadline |-> None, version |-> 0]

NoPool ==
    [acct |-> "uninit", escrow_id |-> 0, client |-> DefaultPubkey,
     mint |-> DefaultPubkey, vault |-> DefaultPubkey,
     payment_per_worker |-> 0, max_releases |-> 0, total_funded |-> 0,
     total_released |-> 0, release_count |-> 0, platform_fee_bps |-> 0,
     status |-> "Created", funded_at |-> None, deadline |-> None]

NoPayments == [worker |-> 0, treasury |-> 0, client |-> 0]

\* No helper function is under examination.
NoCalc == [fn |-> "none"]

Init ==
    /\ config = NoConfig
    /\ escrow = NoEscrow
    /\ vault = 0
    /\ paid = NoPayments
    /\ settlements = 0
    /\ pool = NoPool
    /\ poolVault = 0
    /\ poolPaid = NoPayments
    /\ now = 0
    /\ last = [op |-> "none", caller |-> DefaultPubkey, err |-> "Ok", issued |-> <<>>,
              arg |-> 0, deadline |-> None]
    /\ calc = NoCalc

\* ------------------------------------------------------------------------
\* Token transfers out of a vault (token::transfer CPI, in program order)
\* ------------------------------------------------------------------------
Pay(to, amt) == [to |-> to, amt |-> amt]

\* The transfers of `xs` run one after the other against balance `bal`; the
\* token program refuses a transfer larger than the balance, and the handler
\* returns that error with the earlier transfers already issued.
RECURSIVE RunTransfers(_, _, _)
RunTransfers(bal, xs, done) ==
    IF xs = <<>> THEN [err |-> "Ok", issued |-> done, bal |-> bal]
    ELSE IF Head(xs).amt > bal
         THEN [err |-> "TokenInsufficientFunds", issued |-> done, bal |-> bal]
         ELSE RunTransfers(bal - Head(xs).amt, Tail(xs), Append(done, Head(xs)))

\* A transfer the handler skips when its amount is zero.
IfPositive(to, amt) == IF amt > 0 THEN <<Pay(to, amt)>> ELSE <<>>

RECURSIVE SumTo(_, _)
SumTo(xs, to) ==
    IF xs = <<>> THEN 0
    ELSE (IF Head(xs).to = to THEN Head(xs).amt ELSE 0) + SumTo(Tail(xs), to)

RECURSIVE SumAll(_)
SumAll(xs) == IF xs = <<>> THEN 0 ELSE Head(xs).amt + SumAll(Tail(xs))

Credit(p, xs) ==
    [worker |-> p.worker + SumTo(xs, "worker"),
     treasury |-> p.treasury + SumTo(xs, "treasury"),
     client |-> p.client + SumTo(xs, "client")]

\* ------------------------------------------------------------------------
\* Host: atomic application of an instruction
\* ------------------------------------------------------------------------
\* `arg` keeps the basis points admin_split_funds was called with (0 for the
\* other instructions), `deadline` the deadline a create instruction was
\* called with (None for the other instructions).
Outcome(op, caller, r) ==
    [op |-> op, caller |-> caller, err |-> r.err, issued |-> r.issued,
     arg |-> IF "arg" \in DOMAIN r THEN r.arg ELSE 0,
     deadline |-> IF "deadline" \in DOMAIN r THEN r.deadline ELSE None]

CommitConfig(op, caller, r) ==
    /\ last' = Outcome(op, caller, r)
    /\ config' = IF r.err = "Ok" THEN r.rec ELSE config
    /\ UNCHANGED <<escrowVars, poolVars, now, calc>>

SettleOps ==
    {"release_escrow", "refund_escrow", "admin_release_to_worker",
     "admin_refund_to_client", "admin_split_funds"}

CommitEscrow(op, caller, r) ==
    /\ last' = Outcome(op, caller, r)
    /\ IF r.err = "Ok"
       THEN /\ escrow' = r.rec
            /\ vault' = r.bal
            /\ paid' = Credit(paid, r.issued)
            /\ settlements' = IF op \in SettleOps THEN settlements + 1 ELSE settlements
       ELSE UNCHANGED escrowVars
    /\ UNCHANGED <<config, poolVars, now, calc>>

CommitPool(op, caller, r) ==
    /\ last' = Outcome(op, caller, r)
    /\ IF r.err = "Ok"
       THEN /\ pool' = r.rec
            /\ poolVault' = r.bal
            /\ poolPaid' = Credit(poolPaid, r.issued)
       ELSE UNCHANGED poolVars
    /\ UNCHANGED <<config, escrowVars, now, calc>>

\* Result of an instruction that fails before any transfer.
CFail(e) == [err |-> e, rec |-> config, issued |-> <<>>]
EFail(e) == [err |-> e, rec |-> escrow, bal |-> vault, issued |-> <<>>]
PFail(e) == [err |-> e, rec |-> pool, bal |-> poolVault, issued |-> <<>>]

\* ------------------------------------------------------------------------
\* Platform config instructions
\* ------------------------------------------------------------------------
\* #[derive(Accounts)] InitializeConfig: `init` of the config account, then
\* the treasury constraint.
InitializeConfig(admin, treasury) ==
    IF config.init THEN "AccountAlreadyInUse"
    ELSE IF treasury = DefaultPubkey THEN "InvalidTreasury"
    ELSE "Ok"

initialize_config(admin, treasury, platform_authority) ==
    IF admin # EXPECTED_ADMIN THEN CFail("InvalidAdmin")
    ELSE IF platform_authority = DefaultPubkey THEN CFail("InvalidPlatformAuthority")
    ELSE [err |-> "Ok", issued |-> <<>>,
          rec |-> [init |-> TRUE, admin |-> admin, treasury |-> treasury,
                   platform_authority |-> platform_authority, paused |-> FALSE,
                   pending_admin |-> NoKey]]

\* #[derive(Accounts)] UpdateConfig and ProposeAdmin: has_one = admin.
UpdateConfig(admin) ==
    IF ~config.init THEN "AccountNotInitialized"
    ELSE IF config.admin # admin THEN "Unauthorized"
    ELSE "Ok"

ProposeAdmin(admin) ==
    IF ~config.init THEN "AccountNotInitialized"
    ELSE IF config.admin # admin THEN "Unauthorized"
    ELSE "Ok"

\* #[derive(Accounts)] AcceptAdmin: any signer.
AcceptAdmin(new_admin) ==
    IF ~config.init THEN "AccountNotInitialized" ELSE "Ok"

update_config(new_treasury, new_platform_authority, paused) ==
    LET c1 == IF new_treasury.some
              THEN [config EXCEPT !.treasury = new_treasury.v] ELSE config
        c2 == IF new_platform_authority.some
              THEN [c1 EXCEPT !.platform_authority = new_platform_authority.v] ELSE c1
        c3 == IF paused.some THEN [c2 EXCEPT !.paused = paused.v] ELSE c2
    IN  IF new_platform_authority.some /\ new_platform_authority.v = DefaultPubkey
        THEN CFail("InvalidPlatformAuthority")
        ELSE [err |-> "Ok", rec |-> c3, issued |-> <<>>]

propose_admin(new_admin) ==
    IF new_admin = DefaultPubkey THEN CFail("InvalidAdmin")
    ELSE [err |-> "Ok", issued |-> <<>>,
          rec |-> [config EXCEPT !.pending_admin = Some(new_admin)]]

\* Faulty variant: any signer may accept a pending transfer and becomes admin.
accept_admin_by_anyone(new_admin) ==
    IF ~config.pending_admin.some THEN CFail("NoPendingAdmin")
    ELSE [err |-> "Ok", issued |-> <<>>,
          rec |-> [config EXCEPT !.admin = new_admin,
                                 !.pending_admin = NoKey]]

accept_admin(new_admin) ==
    IF ~config.pending_admin.some THEN CFail("NoPendingAdmin")
    ELSE IF new_admin # config.pending_admin.v THEN CFail("Unauthorized")
    ELSE [err |-> "Ok", issued |-> <<>>,
          rec |-> [config EXCEPT !.admin = config.pending_admin.v,
                                 !.pending_admin = NoKey]]

\* Faulty variant: cancelling succeeds also when no transfer is pending.
cancel_admin_transfer_unchecked ==
    [err |-> "Ok", issued |-> <<>>,
     rec |-> [config EXCEPT !.pending_admin = NoKey]]

cancel_admin_transfer ==
    IF ~config.pending_admin.some THEN CFail("NoPendingAdmin")
    ELSE [err |-> "Ok", issued |-> <<>>,
          rec |-> [config EXCEPT !.pending_admin = NoKey]]

\* ------------------------------------------------------------------------
\* Escrow: account constraints (#[derive(Accounts)] structs)
\* ------------------------------------------------------------------------
\* CreateEscrow: the config account, `init` of the escrow account, and
\* worker.key() != client.key().
CreateEscrow(client, worker) ==
    IF ~config.init THEN "AccountNotInitialized"
    ELSE IF escrow.acct # "uninit" THEN "AccountAlreadyInUse"
    ELSE IF worker = client THEN "SameClientWorker"
    ELSE "Ok"

\* FundEscrow, ReleaseEscrow, RefundEscrow, CancelEscrow, CloseEscrow:
\* the escrow account with has_one = client.
ClientCtx(client) ==
    IF escrow.acct # "open" THEN "AccountNotInitialized"
    ELSE IF escrow.client # client THEN "Unauthorized"
    ELSE "Ok"

FundEscrow(client) == ClientCtx(client)
ReleaseEscrow(client) == ClientCtx(client)
RefundEscrow(client) == ClientCtx(client)
CancelEscrow(client) == ClientCtx(client)
CloseEscrow(client) == ClientCtx(client)

\* FreezeEscrow: the config and escrow accounts, no identity constraint on
\* the caller.
FreezeEscrow(caller) ==
    IF ~config.init THEN "AccountNotInitialized"
    ELSE IF escrow.acct # "open" THEN "AccountNotInitialized"
    ELSE "Ok"

\* AdminActionCtx, AdminRefundCtx, AdminSplit: the config and escrow accounts
\* are loaded, then has_one = admin is checked on the config.
AdminCtx(admin) ==
    IF ~config.init THEN "AccountNotInitialized"
    ELSE IF escrow.acct # "open" THEN "AccountNotInitialized"
    ELSE IF config.admin # admin THEN "Unauthorized"
    ELSE "Ok"

AdminActionCtx(admin) == AdminCtx(admin)
AdminRefundCtx(admin) == AdminCtx(admin)
AdminSplit(admin) == AdminCtx(admin)

\* ------------------------------------------------------------------------
\* Escrow: instruction handlers
\* ------------------------------------------------------------------------
I64_MAX == U64_MAX \div 2

\* Faulty variant: a deadline exactly one year out is refused.
ValidateDeadline_before_one_year(deadline) ==
    IF ~deadline.some THEN "Ok"
    ELSE IF ~(deadline.v > now) THEN "DeadlineInPast"
    ELSE IF now > I64_MAX - MAX_ESCROW_DURATION THEN "Overflow"
    ELSE IF ~(deadline.v < now + MAX_ESCROW_DURATION) THEN "DeadlineTooFar"
    ELSE "Ok"

\* The deadline block of create_escrow and create_pool_escrow.
ValidateDeadline(deadline) ==
    IF ~deadline.some THEN "Ok"
    ELSE IF ~(deadline.v > now) THEN "DeadlineInPast"
    ELSE IF now > I64_MAX - MAX_ESCROW_DURATION THEN "Overflow"
    ELSE IF ~(deadline.v <= now + MAX_ESCROW_DURATION) THEN "DeadlineTooFar"
    ELSE "Ok"

FeeBpsOf(escrow_type) ==
    IF escrow_type = "Task" THEN DEFAULT_FEE_BPS ELSE EMPLOYMENT_FEE_BPS

\* Faulty variant: every escrow is charged the task rate, whatever its type.
create_escrow_flat_rate(client, worker, escrow_id, worker_amount, escrow_type, deadline) ==
    LET fee_bps == DEFAULT_FEE_BPS
        platform_fee == calculate_fee(worker_amount, fee_bps)
        total_amount == checked_add(worker_amount, platform_fee.v)
    IN  IF config.paused THEN EFail("PlatformPaused")
        ELSE IF ~(worker_amount >= MIN_ESCROW_AMOUNT) THEN EFail("AmountTooSmall")
        ELSE IF ~is_on_curve(worker) THEN EFail("InvalidWorkerAddress")
        ELSE IF ValidateDeadline(deadline) # "Ok" THEN EFail(ValidateDeadline(deadline))
        ELSE IF ~platform_fee.ok THEN EFail("Overflow")
        ELSE IF ~total_amount.ok THEN EFail("Overflow")
        ELSE [err |-> "Ok", bal |-> 0, issued |-> <<>>,
              rec |-> [acct |-> "open", escrow_id |-> escrow_id, client |-> client,
                       worker |-> worker, mint |-> MintKey, vault |-> VaultKey,
                       worker_amount |-> worker_amount,
                       total_amount |-> total_amount.v, platform_fee_bps |-> fee_bps,
                       escrow_type |-> escrow_type, status |-> "Created",
                       funded_at |-> None, deadline |-> deadline, version |-> 1]]

create_escrow(client, worker, escrow_id, worker_amount, escrow_type, deadline) ==
    LET fee_bps == FeeBpsOf(escrow_type)
        platform_fee == calculate_fee(worker_amount, fee_bps)
        total_amount == checked_add(worker_amount, platform_fee.v)
    IN  IF config.paused THEN EFail("PlatformPaused")
        ELSE IF ~(worker_amount >= MIN_ESCROW_AMOUNT) THEN EFail("AmountTooSmall")
        ELSE IF ~is_on_curve(worker) THEN EFail("InvalidWorkerAddress")
        ELSE IF ValidateDeadline(deadline) # "Ok" THEN EFail(ValidateDeadline(deadline))
        ELSE IF ~platform_fee.ok THEN EFail("Overflow")
        ELSE IF ~total_amount.ok THEN EFail("Overflow")
        ELSE [err |-> "Ok", bal |-> 0, issued |-> <<>>,
              rec |-> [acct |-> "open", escrow_id |-> escrow_id, client |-> client,
                       worker |-> worker, mint |-> MintKey, vault |-> VaultKey,
                       worker_amount |-> worker_amount,
                       total_amount |-> total_amount.v, platform_fee_bps |-> fee_bps,
                       escrow_type |-> escrow_type, status |-> "Created",
                       funded_at |-> None, deadline |-> deadline, version |-> 1]]

\* Faulty variant: funds the vault with the worker's amount only, without
\* the platform fee.
fund_escrow_without_fee(client) ==
    IF escrow.status # "Created" THEN EFail("InvalidStatus")
    ELSE IF client # escrow.client THEN EFail("Unauthorized")
    ELSE [err |-> "Ok", issued |-> <<>>,
          bal |-> vault + escrow.worker_amount,
          rec |-> [escrow EXCEPT !.status = "Funded", !.funded_at = Some(now)]]

\* Faulty variant: no status check, an escrow can be funded again.
fund_escrow_any_status(client) ==
    IF client # escrow.client THEN EFail("Unauthorized")
    ELSE [err |-> "Ok", issued |-> <<>>,
          bal |-> vault + escrow.total_amount,
          rec |-> [escrow EXCEPT !.status = "Funded", !.funded_at = Some(now)]]

\* Faulty variant: the funding time is not recorded.
fund_escrow_unstamped(client) ==
    IF escrow.status # "Created" THEN EFail("InvalidStatus")
    ELSE IF client # escrow.client THEN EFail("Unauthorized")
    ELSE [err |-> "Ok", issued |-> <<>>,
          bal |-> vault + escrow.total_amount,
          rec |-> [escrow EXCEPT !.status = "Funded"]]

fund_escrow(client) ==
    IF escrow.status # "Created" THEN EFail("InvalidStatus")
    ELSE IF client # escrow.client THEN EFail("Unauthorized")
    ELSE [err |-> "Ok", issued |-> <<>>,
          bal |-> vault + escrow.total_amount,
          rec |-> [escrow EXCEPT !.status = "Funded", !.funded_at = Some(now)]]

\* Faulty variant: the fee is taken out of the worker's payout, as in the
\* legacy fee-at-release scheme.
release_escrow_fee_at_release(client) ==
    LET platform_fee == checked_sub(escrow.total_amount, escrow.worker_amount)
        worker_payout == checked_sub(escrow.worker_amount, platform_fee.v)
        t == RunTransfers(vault,
                 IfPositive("worker", worker_payout.v)
                     \o IfPositive("treasury", platform_fee.v), <<>>)
    IN  IF escrow.status # "Funded" THEN EFail("InvalidStatus")
        ELSE IF client # escrow.client THEN EFail("Unauthorized")
        ELSE IF ~platform_fee.ok THEN EFail("Overflow")
        ELSE IF ~worker_payout.ok THEN EFail("Overflow")
        ELSE IF t.err # "Ok"
             THEN [err |-> t.err, rec |-> escrow, bal |-> vault, issued |-> t.issued]
        ELSE [err |-> "Ok", bal |-> t.bal, issued |-> t.issued,
              rec |-> [escrow EXCEPT !.status = "Released"]]

\* Faulty variant: the status is left at Funded after the payout.
release_escrow_keeps_status(client) ==
    LET worker_payout == escrow.worker_amount
        platform_fee == checked_sub(escrow.total_amount, escrow.worker_amount)
        t == RunTransfers(vault,
                 IfPositive("worker", worker_payout)
                     \o IfPositive("treasury", platform_fee.v), <<>>)
    IN  IF escrow.status # "Funded" THEN EFail("InvalidStatus")
        ELSE IF client # escrow.client THEN EFail("Unauthorized")
        ELSE IF ~platform_fee.ok THEN EFail("Overflow")
        ELSE IF t.err # "Ok"
             THEN [err |-> t.err, rec |-> escrow, bal |-> vault, issued |-> t.issued]
        ELSE [err |-> "Ok", bal |-> t.bal, issued |-> t.issued, rec |-> escrow]

\* Faulty variant: the treasury is paid before the worker.
release_escrow_fee_first(client) ==
    LET worker_payout == escrow.worker_amount
        platform_fee == checked_sub(escrow.total_amount, escrow.worker_amount)
        t == RunTransfers(vault,
                 IfPositive("treasury", platform_fee.v)
                     \o IfPositive("worker", worker_payout), <<>>)
    IN  IF escrow.status # "Funded" THEN EFail("InvalidStatus")
        ELSE IF client # escrow.client THEN EFail("Unauthorized")
        ELSE IF ~platform_fee.ok THEN EFail("Overflow")
        ELSE IF t.err # "Ok"
             THEN [err |-> t.err, rec |-> escrow, bal |-> vault, issued |-> t.issued]
        ELSE [err |-> "Ok", bal |-> t.bal, issued |-> t.issued,
              rec |-> [escrow EXCEPT !.status = "Released"]]

\* Faulty variant: a paused platform also refuses releases.
release_escrow_unless_paused(client) ==
    LET worker_payout == escrow.worker_amount
        platform_fee == checked_sub(escrow.total_amount, escrow.worker_amount)
        t == RunTransfers(vault,
                 IfPositive("worker", worker_payout)
                     \o IfPositive("treasury", platform_fee.v), <<>>)
    IN  IF config.paused THEN EFail("PlatformPaused")
        ELSE IF escrow.status # "Funded" THEN EFail("InvalidStatus")
        ELSE IF client # escrow.client THEN EFail("Unauthorized")
        ELSE IF ~platform_fee.ok THEN EFail("Overflow")
        ELSE IF t.err # "Ok"
             THEN [err |-> t.err, rec |-> escrow, bal |-> vault, issued |-> t.issued]
        ELSE [err |-> "Ok", bal |-> t.bal, issued |-> t.issued,
              rec |-> [escrow EXCEPT !.status = "Released"]]

release_escrow(client) ==
    LET worker_payout == escrow.worker_amount
        platform_fee == checked_sub(escrow.total_amount, escrow.worker_amount)
        t == RunTransfers(vault,
                 IfPositive("worker", worker_payout)
                     \o IfPositive("treasury", platform_fee.v), <<>>)
    IN  IF escrow.status # "Funded" THEN EFail("InvalidStatus")
        ELSE IF client # escrow.client THEN EFail("Unauthorized")
        ELSE IF ~platform_fee.ok THEN EFail("Overflow")
        ELSE IF t.err # "Ok"
             THEN [err |-> t.err, rec |-> escrow, bal |-> vault, issued |-> t.issued]
        ELSE [err |-> "Ok", bal |-> t.bal, issued |-> t.issued,
              rec |-> [escrow EXCEPT !.status = "Released"]]

\* Faulty variant: only the two parties may freeze, the admin may not.
freeze_escrow_parties_only(caller) ==
    IF escrow.status # "Funded" THEN EFail("InvalidStatus")
    ELSE IF ~(caller = escrow.client \/ caller = escrow.worker)
         THEN EFail("Unauthorized")
    ELSE [err |-> "Ok", bal |-> vault, issued |-> <<>>,
          rec |-> [escrow EXCEPT !.status = "Frozen"]]

\* Faulty variant: an escrow can be frozen before it is funded.
freeze_escrow_before_funding(caller) ==
    IF ~(escrow.status = "Created" \/ escrow.status = "Funded")
    THEN EFail("InvalidStatus")
    ELSE IF ~(caller = escrow.client \/ caller = escrow.worker \/ caller = config.admin)
         THEN EFail("Unauthorized")
    ELSE [err |-> "Ok", bal |-> vault, issued |-> <<>>,
          rec |-> [escrow EXCEPT !.status = "Frozen"]]

\* Faulty variant: the status check is missing, a settled escrow can be
\* frozen.
freeze_escrow_any_status(caller) ==
    IF ~(caller = escrow.client \/ caller = escrow.worker \/ caller = config.admin)
    THEN EFail("Unauthorized")
    ELSE [err |-> "Ok", bal |-> vault, issued |-> <<>>,
          rec |-> [escrow EXCEPT !.status = "Frozen"]]

freeze_escrow(caller) ==
    IF escrow.status # "Funded" THEN EFail("InvalidStatus")
    ELSE IF ~(caller = escrow.client \/ caller = escrow.worker \/ caller = config.admin)
         THEN EFail("Unauthorized")
    ELSE [err |-> "Ok", bal |-> vault, issued |-> <<>>,
          rec |-> [escrow EXCEPT !.status = "Frozen"]]

\* Faulty variant: the worker is paid and the fee stays in the vault.
admin_release_to_worker_fee_withheld(admin) ==
    LET worker_payout == escrow.worker_amount
        platform_fee == checked_sub(escrow.total_amount, escrow.worker_amount)
        t == RunTransfers(vault, <<Pay("worker", worker_payout)>>, <<>>)
    IN  IF escrow.status # "Frozen" THEN EFail("InvalidStatus")
        ELSE IF admin # config.admin THEN EFail("Unauthorized")
        ELSE IF ~escrow.funded_at.some THEN EFail("NotFunded")
        ELSE IF ~platform_fee.ok THEN EFail("Overflow")
        ELSE IF t.err # "Ok"
             THEN [err |-> t.err, rec |-> escrow, bal |-> vault, issued |-> t.issued]
        ELSE [err |-> "Ok", bal |-> t.bal, issued |-> t.issued,
              rec |-> [escrow EXCEPT !.status = "Released"]]

admin_release_to_worker(admin) ==
    LET worker_payout == escrow.worker_amount
        platform_fee == checked_sub(escrow.total_amount, escrow.worker_amount)
        t == RunTransfers(vault,
                 <<Pay("worker", worker_payout)>>
                     \o IfPositive("treasury", platform_fee.v), <<>>)
    IN  IF escrow.status # "Frozen" THEN EFail("InvalidStatus")
        ELSE IF admin # config.admin THEN EFail("Unauthorized")
        ELSE IF ~escrow.funded_at.some THEN EFail("NotFunded")
        ELSE IF ~platform_fee.ok THEN EFail("Overflow")
        ELSE IF t.err # "Ok"
             THEN [err |-> t.err, rec |-> escrow, bal |-> vault, issued |-> t.issued]
        ELSE [err |-> "Ok", bal |-> t.bal, issued |-> t.issued,
              rec |-> [escrow EXCEPT !.status = "Released"]]

\* Faulty variant: the funded_at check is missing.
admin_refund_to_client_unchecked(admin) ==
    LET client_refund == escrow.total_amount
        t == RunTransfers(vault, <<Pay("client", client_refund)>>, <<>>)
    IN  IF escrow.status # "Frozen" THEN EFail("InvalidStatus")
        ELSE IF admin # config.admin THEN EFail("Unauthorized")
        ELSE IF t.err # "Ok"
             THEN [err |-> t.err, rec |-> escrow, bal |-> vault, issued |-> t.issued]
        ELSE [err |-> "Ok", bal |-> t.bal, issued |-> t.issued,
              rec |-> [escrow EXCEPT !.status = "Refunded"]]

admin_refund_to_client(admin) ==
    LET client_refund == escrow.total_amount
        t == RunTransfers(vault, <<Pay("client", client_refund)>>, <<>>)
    IN  IF escrow.status # "Frozen" THEN EFail("InvalidStatus")
        ELSE IF admin # config.admin THEN EFail("Unauthorized")
        ELSE IF ~escrow.funded_at.some THEN EFail("NotFunded")
        ELSE IF t.err # "Ok"
             THEN [err |-> t.err, rec |-> escrow, bal |-> vault, issued |-> t.issued]
        ELSE [err |-> "Ok", bal |-> t.bal, issued |-> t.issued,
              rec |-> [escrow EXCEPT !.status = "Refunded"]]

\* Faulty variant: the refund is already allowed at the deadline itself.
refund_escrow_at_deadline(client) ==
    LET t == RunTransfers(vault, <<Pay("client", escrow.total_amount)>>, <<>>)
    IN  IF escrow.status # "Funded" THEN EFail("InvalidStatus")
        ELSE IF client # escrow.client THEN EFail("Unauthorized")
        ELSE IF ~escrow.deadline.some THEN EFail("NoDeadlineSet")
        ELSE IF ~(now >= escrow.deadline.v) THEN EFail("DeadlineNotPassed")
        ELSE IF t.err # "Ok"
             THEN [err |-> t.err, rec |-> escrow, bal |-> vault, issued |-> t.issued]
        ELSE [err |-> "Ok", bal |-> t.bal, issued |-> t.issued,
              rec |-> [escrow EXCEPT !.status = "Refunded"]]

\* Faulty variant: a Frozen escrow is refundable after the deadline too.
refund_escrow_frozen_too(client) ==
    LET t == RunTransfers(vault, <<Pay("client", escrow.total_amount)>>, <<>>)
    IN  IF ~(escrow.status = "Funded" \/ escrow.status = "Frozen")
        THEN EFail("InvalidStatus")
        ELSE IF client # escrow.client THEN EFail("Unauthorized")
        ELSE IF ~escrow.deadline.some THEN EFail("NoDeadlineSet")
        ELSE IF ~(now > escrow.deadline.v) THEN EFail("DeadlineNotPassed")
        ELSE IF t.err # "Ok"
             THEN [err |-> t.err, rec |-> escrow, bal |-> vault, issued |-> t.issued]
        ELSE [err |-> "Ok", bal |-> t.bal, issued |-> t.issued,
              rec |-> [escrow EXCEPT !.status = "Refunded"]]

\* Faulty variant: the refund also clears the deadline it was made for.
refund_escrow_clears_deadline(client) ==
    LET t == RunTransfers(vault, <<Pay("client", escrow.total_amount)>>, <<>>)
    IN  IF escrow.status # "Funded" THEN EFail("InvalidStatus")
        ELSE IF client # escrow.client THEN EFail("Unauthorized")
        ELSE IF ~escrow.deadline.some THEN EFail("NoDeadlineSet")
        ELSE IF ~(now > escrow.deadline.v) THEN EFail("DeadlineNotPassed")
        ELSE IF t.err # "Ok"
             THEN [err |-> t.err, rec |-> escrow, bal |-> vault, issued |-> t.issued]
        ELSE [err |-> "Ok", bal |-> t.bal, issued |-> t.issued,
              rec |-> [escrow EXCEPT !.status = "Refunded", !.deadline = None]]

refund_escrow(client) ==
    LET t == RunTransfers(vault, <<Pay("client", escrow.total_amount)>>, <<>>)
    IN  IF escrow.status # "Funded" THEN EFail("InvalidStatus")
        ELSE IF client # escrow.client THEN EFail("Unauthorized")
        ELSE IF ~escrow.deadline.some THEN EFail("NoDeadlineSet")
        ELSE IF ~(now > escrow.deadline.v) THEN EFail("DeadlineNotPassed")
        ELSE IF t.err # "Ok"
             THEN [err |-> t.err, rec |-> escrow, bal |-> vault, issued |-> t.issued]
        ELSE [err |-> "Ok", bal |-> t.bal, issued |-> t.issued,
              rec |-> [escrow EXCEPT !.status = "Refunded"]]

\* Faulty variant: no status check.
cancel_escrow_any_status(client) ==
    IF client # escrow.client THEN EFail("Unauthorized")
    ELSE IF vault # 0 THEN EFail("VaultNotEmpty")
    ELSE [err |-> "Ok", bal |-> vault, issued |-> <<>>,
          rec |-> [escrow EXCEPT !.acct = "closed"]]

\* On success the vault token account is closed by CPI and the escrow
\* account by the `close = client` constraint.
cancel_escrow(client) ==
    IF escrow.status # "Created" THEN EFail("InvalidStatus")
    ELSE IF client # escrow.client THEN EFail("Unauthorized")
    ELSE IF vault # 0 THEN EFail("VaultNotEmpty")
    ELSE [err |-> "Ok", bal |-> vault, issued |-> <<>>,
          rec |-> [escrow EXCEPT !.acct = "closed"]]

\* Faulty variant: the client's share is a second floor division instead of
\* the remainder of the base.
admin_split_funds_two_floors(admin, worker_bps) ==
    LET platform_fee == checked_sub(escrow.total_amount, escrow.worker_amount)
        split_base == escrow.worker_amount
        worker_amount == WideMulDiv(split_base, worker_bps) % (U64_MAX + 1)
        client_amount == WideMulDiv(split_base, BPS_DENOMINATOR - worker_bps)
        t == RunTransfers(vault,
                 IfPositive("treasury", platform_fee.v)
                     \o IfPositive("worker", worker_amount)
                     \o IfPositive("client", client_amount), <<>>)
    IN  IF escrow.status # "Frozen" THEN EFail("InvalidStatus")
        ELSE IF admin # config.admin THEN EFail("Unauthorized")
        ELSE IF ~escrow.funded_at.some THEN EFail("NotFunded")
        ELSE IF ~(worker_bps <= BPS_DENOMINATOR) THEN EFail("InvalidPercentage")
        ELSE IF ~platform_fee.ok THEN EFail("Overflow")
        ELSE IF t.err # "Ok"
             THEN [err |-> t.err, rec |-> escrow, bal |-> vault, issued |-> t.issued]
        ELSE [err |-> "Ok", bal |-> t.bal, issued |-> t.issued,
              rec |-> [escrow EXCEPT !.status = "Released"]]

\* Faulty variant: the range of worker_bps is not checked.
admin_split_funds_any_bps(admin, worker_bps) ==
    LET platform_fee == checked_sub(escrow.total_amount, escrow.worker_amount)
        split_base == escrow.worker_amount
        worker_amount == WideMulDiv(split_base, worker_bps) % (U64_MAX + 1)
        client_amount == checked_sub(split_base, worker_amount)
        t == RunTransfers(vault,
                 IfPositive("treasury", platform_fee.v)
                     \o IfPositive("worker", worker_amount)
                     \o IfPositive("client", client_amount.v), <<>>)
    IN  IF escrow.status # "Frozen" THEN EFail("InvalidStatus")
        ELSE IF admin # config.admin THEN EFail("Unauthorized")
        ELSE IF ~escrow.funded_at.some THEN EFail("NotFunded")
        ELSE IF ~platform_fee.ok THEN EFail("Overflow")
        ELSE IF ~client_amount.ok THEN EFail("Overflow")
        ELSE IF t.err # "Ok"
             THEN [err |-> t.err, rec |-> escrow, bal |-> vault, issued |-> t.issued]
        ELSE [err |-> "Ok", bal |-> t.bal, issued |-> t.issued,
              rec |-> [escrow EXCEPT !.status = "Released"]]

admin_split_funds(admin, worker_bps) ==
    LET platform_fee == checked_sub(escrow.total_amount, escrow.worker_amount)
        split_base == escrow.worker_amount
        worker_amount == WideMulDiv(split_base, worker_bps) % (U64_MAX + 1)
        client_amount == checked_sub(split_base, worker_amount)
        t == RunTransfers(vault,
                 IfPositive("treasury", platform_fee.v)
                     \o IfPositive("worker", worker_amount)
                     \o IfPositive("client", client_amount.v), <<>>)
    IN  IF escrow.status # "Frozen" THEN EFail("InvalidStatus")
        ELSE IF admin # config.admin THEN EFail("Unauthorized")
        ELSE IF ~escrow.funded_at.some THEN EFail("NotFunded")
        ELSE IF ~(worker_bps <= BPS_DENOMINATOR) THEN EFail("InvalidPercentage")
        ELSE IF ~platform_fee.ok THEN EFail("Overflow")
        ELSE IF ~client_amount.ok THEN EFail("Overflow")
        ELSE IF t.err # "Ok"
             THEN [err |-> t.err, rec |-> escrow, bal |-> vault, issued |-> t.issued]
        ELSE [err |-> "Ok", bal |-> t.bal, issued |-> t.issued,
              rec |-> [escrow EXCEPT !.status = "Released"]]

\* Faulty variant: the account is closed without looking at the vault.
close_escrow_vault_unchecked(client) ==
    IF ~(escrow.status = "Released" \/ escrow.status = "Refunded")
    THEN EFail("InvalidStatus")
    ELSE [err |-> "Ok", bal |-> vault, issued |-> <<>>,
          rec |-> [escrow EXCEPT !.acct = "closed"]]

close_escrow(client) ==
    IF ~(escrow.status = "Released" \/ escrow.status = "Refunded")
    THEN EFail("InvalidStatus")
    ELSE IF vault # 0 THEN EFail("VaultNotEmpty")
    ELSE [err |-> "Ok", bal |-> vault, issued |-> <<>>,
          rec |-> [escrow EXCEPT !.acct = "closed"]]

\* ------------------------------------------------------------------------
\* Pool escrow: account constraints
\* ------------------------------------------------------------------------
CreatePoolEscrow(client) ==
    IF ~config.init THEN "AccountNotInitialized"
    ELSE IF pool.acct # "uninit" THEN "AccountAlreadyInUse"
    ELSE "Ok"

\* FundPoolEscrow, ClosePoolEscrow: the pool account with has_one = client.
FundPoolEscrow(client) ==
    IF pool.acct # "open" THEN "AccountNotInitialized"
    ELSE IF pool.client # client THEN "Unauthorized"
    ELSE "Ok"

ClosePoolEscrow(client) ==
    IF pool.acct # "open" THEN "AccountNotInitialized"
    ELSE IF pool.client # client THEN "Unauthorized"
    ELSE "Ok"

\* Faulty variant: the has_one = platform_authority constraint is missing.
PartialRelease_any_signer(platform_authority) ==
    IF ~config.init THEN "AccountNotInitialized"
    ELSE IF pool.acct # "open" THEN "AccountNotInitialized"
    ELSE "Ok"

\* PartialRelease: the config and pool accounts are loaded, then
\* has_one = platform_authority is checked on the config.
PartialRelease(platform_authority) ==
    IF ~config.init THEN "AccountNotInitialized"
    ELSE IF pool.acct # "open" THEN "AccountNotInitialized"
    ELSE IF config.platform_authority # platform_authority THEN "Unauthorized"
    ELSE "Ok"

\* ------------------------------------------------------------------------
\* Pool escrow: instruction handlers
\* ------------------------------------------------------------------------
\* Faulty variant: the fee is the fee of one payment times max_releases.
create_pool_escrow_fee_per_release(client, escrow_id, payment_per_worker, max_releases, deadline) ==
    LET worker_budget == checked_mul(payment_per_worker, max_releases)
        fee_per_release == calculate_fee(payment_per_worker, DEFAULT_FEE_BPS)
        total_fee == checked_mul(fee_per_release.v, max_releases)
        total_funded == checked_add(worker_budget.v, total_fee.v)
    IN  IF config.paused THEN PFail("PlatformPaused")
        ELSE IF ~(payment_per_worker >= MIN_ESCROW_AMOUNT) THEN PFail("AmountTooSmall")
        ELSE IF ~(max_releases >= 1 /\ max_releases <= MAX_POOL_WORKERS)
             THEN PFail("InvalidMaxReleases")
        ELSE IF ValidateDeadline(deadline) # "Ok" THEN PFail(ValidateDeadline(deadline))
        ELSE IF ~worker_budget.ok THEN PFail("Overflow")
        ELSE IF ~total_fee.ok THEN PFail("Overflow")
        ELSE IF ~total_funded.ok THEN PFail("Overflow")
        ELSE [err |-> "Ok", bal |-> 0, issued |-> <<>>,
              rec |-> [acct |-> "open", escrow_id |-> escrow_id, client |-> client,
                       mint |-> MintKey, vault |-> VaultKey,
                       payment_per_worker |-> payment_per_worker,
                       max_releases |-> max_releases,
                       total_funded |-> total_funded.v, total_released |-> 0,
                       release_count |-> 0, platform_fee_bps |-> DEFAULT_FEE_BPS,
                       status |-> "Created", funded_at |-> None,
                       deadline |-> deadline]]

\* Faulty variant: the pool is funded with the worker budget only, without
\* the fee on it.
create_pool_escrow_without_fee(client, escrow_id, payment_per_worker, max_releases, deadline) ==
    LET worker_budget == checked_mul(payment_per_worker, max_releases)
        total_funded == worker_budget
    IN  IF config.paused THEN PFail("PlatformPaused")
        ELSE IF ~(payment_per_worker >= MIN_ESCROW_AMOUNT) THEN PFail("AmountTooSmall")
        ELSE IF ~(max_releases >= 1 /\ max_releases <= MAX_POOL_WORKERS)
             THEN PFail("InvalidMaxReleases")
        ELSE IF ValidateDeadline(deadline) # "Ok" THEN PFail(ValidateDeadline(deadline))
        ELSE IF ~worker_budget.ok THEN PFail("Overflow")
        ELSE [err |-> "Ok", bal |-> 0, issued |-> <<>>,
              rec |-> [acct |-> "open", escrow_id |-> escrow_id, client |-> client,
                       mint |-> MintKey, vault |-> VaultKey,
                       payment_per_worker |-> payment_per_worker,
                       max_releases |-> max_releases,
                       total_funded |-> total_funded.v, total_released |-> 0,
                       release_count |-> 0, platform_fee_bps |-> DEFAULT_FEE_BPS,
                       status |-> "Created", funded_at |-> None,
                       deadline |-> deadline]]

create_pool_escrow(client, escrow_id, payment_per_worker, max_releases, deadline) ==
    LET worker_budget == checked_mul(payment_per_worker, max_releases)
        total_fee == calculate_fee(worker_budget.v, DEFAULT_FEE_BPS)
        total_funded == checked_add(worker_budget.v, total_fee.v)
    IN  IF config.paused THEN PFail("PlatformPaused")
        ELSE IF ~(payment_per_worker >= MIN_ESCROW_AMOUNT) THEN PFail("AmountTooSmall")
        ELSE IF ~(max_releases >= 1 /\ max_releases <= MAX_POOL_WORKERS)
             THEN PFail("InvalidMaxReleases")
        ELSE IF ValidateDeadline(deadline) # "Ok" THEN PFail(ValidateDeadline(deadline))
        ELSE IF ~worker_budget.ok THEN PFail("Overflow")
        ELSE IF ~total_fee.ok THEN PFail("Overflow")
        ELSE IF ~total_funded.ok THEN PFail("Overflow")
        ELSE [err |-> "Ok", bal |-> 0, issued |-> <<>>,
              rec |-> [acct |-> "open", escrow_id |-> escrow_id, client |-> client,
                       mint |-> MintKey, vault |-> VaultKey,
                       payment_per_worker |-> payment_per_worker,
                       max_releases |-> max_releases,
                       total_funded |-> total_funded.v, total_released |-> 0,
                       release_count |-> 0, platform_fee_bps |-> DEFAULT_FEE_BPS,
                       status |-> "Created", funded_at |-> None,
                       deadline |-> deadline]]

fund_pool_escrow(client) ==
    IF pool.status # "Created" THEN PFail("InvalidStatus")
    ELSE IF client # pool.client THEN PFail("Unauthorized")
    ELSE [err |-> "Ok", issued |-> <<>>,
          bal |-> poolVault + pool.total_funded,
          rec |-> [pool EXCEPT !.status = "Funded", !.funded_at = Some(now)]]

\* Faulty variant: release_count counts the transfers issued, not the releases.
partial_release_counts_transfers(platform_authority) ==
    LET worker_amount == pool.payment_per_worker
        platform_fee == calculate_fee(worker_amount, pool.platform_fee_bps)
        total_release == checked_add(worker_amount, platform_fee.v)
        remaining == checked_sub(pool.total_funded, pool.total_released)
        t == RunTransfers(poolVault,
                 IfPositive("worker", worker_amount)
                     \o IfPositive("treasury", platform_fee.v), <<>>)
        \* "Update tracking", after the transfers
        total_released == checked_add(pool.total_released, total_release.v)
        release_count == checked_add(pool.release_count, Len(t.issued))
        remaining_balance == checked_sub(pool.total_funded, total_released.v)
        Late(e) == [err |-> e, rec |-> pool, bal |-> poolVault, issued |-> t.issued]
    IN  IF ~(pool.status = "Funded" \/ pool.status = "Active")
        THEN PFail("InvalidStatus")
        ELSE IF pool.deadline.some /\ ~(now <= pool.deadline.v)
             THEN PFail("DeadlinePassed")
        ELSE IF ~(pool.release_count < pool.max_releases)
             THEN PFail("MaxReleasesReached")
        ELSE IF ~platform_fee.ok THEN PFail("Overflow")
        ELSE IF ~total_release.ok THEN PFail("Overflow")
        ELSE IF ~remaining.ok THEN PFail("Overflow")
        ELSE IF ~(remaining.v >= total_release.v) THEN PFail("InsufficientFunds")
        ELSE IF t.err # "Ok" THEN Late(t.err)
        ELSE IF ~total_released.ok THEN Late("Overflow")
        ELSE IF ~release_count.ok THEN Late("Overflow")
        ELSE IF ~remaining_balance.ok THEN Late("Overflow")
        ELSE [err |-> "Ok", bal |-> t.bal, issued |-> t.issued,
              rec |-> [pool EXCEPT !.total_released = total_released.v,
                                   !.release_count = release_count.v,
                                   !.status = "Active"]]

\* Faulty variant: the fee paid to the treasury is not added to total_released.
partial_release_fee_untracked(platform_authority) ==
    LET worker_amount == pool.payment_per_worker
        platform_fee == calculate_fee(worker_amount, pool.platform_fee_bps)
        total_release == checked_add(worker_amount, platform_fee.v)
        remaining == checked_sub(pool.total_funded, pool.total_released)
        t == RunTransfers(poolVault,
                 IfPositive("worker", worker_amount)
                     \o IfPositive("treasury", platform_fee.v), <<>>)
        \* "Update tracking", after the transfers
        total_released == checked_add(pool.total_released, worker_amount)
        release_count == checked_add(pool.release_count, 1)
        remaining_balance == checked_sub(pool.total_funded, total_released.v)
        Late(e) == [err |-> e, rec |-> pool, bal |-> poolVault, issued |-> t.issued]
    IN  IF ~(pool.status = "Funded" \/ pool.status = "Active")
        THEN PFail("InvalidStatus")
        ELSE IF pool.deadline.some /\ ~(now <= pool.deadline.v)
             THEN PFail("DeadlinePassed")
        ELSE IF ~(pool.release_count < pool.max_releases)
             THEN PFail("MaxReleasesReached")
        ELSE IF ~platform_fee.ok THEN PFail("Overflow")
        ELSE IF ~total_release.ok THEN PFail("Overflow")
        ELSE IF ~remaining.ok THEN PFail("Overflow")
        ELSE IF ~(remaining.v >= total_release.v) THEN PFail("InsufficientFunds")
        ELSE IF t.err # "Ok" THEN Late(t.err)
        ELSE IF ~total_released.ok THEN Late("Overflow")
        ELSE IF ~release_count.ok THEN Late("Overflow")
        ELSE IF ~remaining_balance.ok THEN Late("Overflow")
        ELSE [err |-> "Ok", bal |-> t.bal, issued |-> t.issued,
              rec |-> [pool EXCEPT !.total_released = total_released.v,
                                   !.release_count = release_count.v,
                                   !.status = "Active"]]

\* Faulty variant: the fee is taken out of the worker's payment.
partial_release_fee_from_payment(platform_authority) ==
    LET worker_amount == pool.payment_per_worker
        platform_fee == calculate_fee(worker_amount, pool.platform_fee_bps)
        total_release == checked_add(worker_amount, platform_fee.v)
        remaining == checked_sub(pool.total_funded, pool.total_released)
        t == RunTransfers(poolVault,
                 IfPositive("worker", worker_amount - platform_fee.v)
                     \o IfPositive("treasury", platform_fee.v), <<>>)
        \* "Update tracking", after the transfers
        total_released == checked_add(pool.total_released, total_release.v)
        release_count == checked_add(pool.release_count, 1)
        remaining_balance == checked_sub(pool.total_funded, total_released.v)
        Late(e) == [err |-> e, rec |-> pool, bal |-> poolVault, issued |-> t.issued]
    IN  IF ~(pool.status = "Funded" \/ pool.status = "Active")
        THEN PFail("InvalidStatus")
        ELSE IF pool.deadline.some /\ ~(now <= pool.deadline.v)
             THEN PFail("DeadlinePassed")
        ELSE IF ~(pool.release_count < pool.max_releases)
             THEN PFail("MaxReleasesReached")
        ELSE IF ~platform_fee.ok THEN PFail("Overflow")
        ELSE IF ~total_release.ok THEN PFail("Overflow")
        ELSE IF ~remaining.ok THEN PFail("Overflow")
        ELSE IF ~(remaining.v >= total_release.v) THEN PFail("InsufficientFunds")
        ELSE IF t.err # "Ok" THEN Late(t.err)
        ELSE IF ~total_released.ok THEN Late("Overflow")
        ELSE IF ~release_count.ok THEN Late("Overflow")
        ELSE IF ~remaining_balance.ok THEN Late("Overflow")
        ELSE [err |-> "Ok", bal |-> t.bal, issued |-> t.issued,
              rec |-> [pool EXCEPT !.total_released = total_released.v,
                                   !.release_count = release_count.v,
                                   !.status = "Active"]]

\* Faulty variant: the max_releases check is missing.
partial_release_unmetered(platform_authority) ==
    LET worker_amount == pool.payment_per_worker
        platform_fee == calculate_fee(worker_amount, pool.platform_fee_bps)
        total_release == checked_add(worker_amount, platform_fee.v)
        remaining == checked_sub(pool.total_funded, pool.total_released)
        t == RunTransfers(poolVault,
                 IfPositive("worker", worker_amount)
                     \o IfPositive("treasury", platform_fee.v), <<>>)
        \* "Update tracking", after the transfers
        total_released == checked_add(pool.total_released, total_release.v)
        release_count == checked_add(pool.release_count, 1)
        remaining_balance == checked_sub(pool.total_funded, total_released.v)
        Late(e) == [err |-> e, rec |-> pool, bal |-> poolVault, issued |-> t.issued]
    IN  IF ~(pool.status = "Funded" \/ pool.status = "Active")
        THEN PFail("InvalidStatus")
        ELSE IF pool.deadline.some /\ ~(now <= pool.deadline.v)
             THEN PFail("DeadlinePassed")
        ELSE IF ~platform_fee.ok THEN PFail("Overflow")
        ELSE IF ~total_release.ok THEN PFail("Overflow")
        ELSE IF ~remaining.ok THEN PFail("Overflow")
        ELSE IF ~(remaining.v >= total_release.v) THEN PFail("InsufficientFunds")
        ELSE IF t.err # "Ok" THEN Late(t.err)
        ELSE IF ~total_released.ok THEN Late("Overflow")
        ELSE IF ~release_count.ok THEN Late("Overflow")
        ELSE IF ~remaining_balance.ok THEN Late("Overflow")
        ELSE [err |-> "Ok", bal |-> t.bal, issued |-> t.issued,
              rec |-> [pool EXCEPT !.total_released = total_released.v,
                                   !.release_count = release_count.v,
                                   !.status = "Active"]]

\* Faulty variant: the number of releases is checked before the deadline.
partial_release_count_first(platform_authority) ==
    LET worker_amount == pool.payment_per_worker
        platform_fee == calculate_fee(worker_amount, pool.platform_fee_bps)
        total_release == checked_add(worker_amount, platform_fee.v)
        remaining == checked_sub(pool.total_funded, pool.total_released)
        t == RunTransfers(poolVault,
                 IfPositive("worker", worker_amount)
                     \o IfPositive("treasury", platform_fee.v), <<>>)
        \* "Update tracking", after the transfers
        total_released == checked_add(pool.total_released, total_release.v)
        release_count == checked_add(pool.release_count, 1)
        remaining_balance == checked_sub(pool.total_funded, total_released.v)
        Late(e) == [err |-> e, rec |-> pool, bal |-> poolVault, issued |-> t.issued]
    IN  IF ~(pool.status = "Funded" \/ pool.status = "Active")
        THEN PFail("InvalidStatus")
        ELSE IF ~(pool.release_count < pool.max_releases)
             THEN PFail("MaxReleasesReached")
        ELSE IF pool.deadline.some /\ ~(now <= pool.deadline.v)
             THEN PFail("DeadlinePassed")
        ELSE IF ~platform_fee.ok THEN PFail("Overflow")
        ELSE IF ~total_release.ok THEN PFail("Overflow")
        ELSE IF ~remaining.ok THEN PFail("Overflow")
        ELSE IF ~(remaining.v >= total_release.v) THEN PFail("InsufficientFunds")
        ELSE IF t.err # "Ok" THEN Late(t.err)
        ELSE IF ~total_released.ok THEN Late("Overflow")
        ELSE IF ~release_count.ok THEN Late("Overflow")
        ELSE IF ~remaining_balance.ok THEN Late("Overflow")
        ELSE [err |-> "Ok", bal |-> t.bal, issued |-> t.issued,
              rec |-> [pool EXCEPT !.total_released = total_released.v,
                                   !.release_count = release_count.v,
                                   !.status = "Active"]]

\* Faulty variant: the status is left as it was, a Funded pool stays Funded.
partial_release_stays_funded(platform_authority) ==
    LET worker_amount == pool.payment_per_worker
        platform_fee == calculate_fee(worker_amount, pool.platform_fee_bps)
        total_release == checked_add(worker_amount, platform_fee.v)
        remaining == checked_sub(pool.total_funded, pool.total_released)
        t == RunTransfers(poolVault,
                 IfPositive("worker", worker_amount)
                     \o IfPositive("treasury", platform_fee.v), <<>>)
        \* "Update tracking", after the transfers
        total_released == checked_add(pool.total_released, total_release.v)
        release_count == checked_add(pool.release_count, 1)
        remaining_balance == checked_sub(pool.total_funded, total_released.v)
        Late(e) == [err |-> e, rec |-> pool, bal |-> poolVault, issued |-> t.issued]
    IN  IF ~(pool.status = "Funded" \/ pool.status = "Active")
        THEN PFail("InvalidStatus")
        ELSE IF pool.deadline.some /\ ~(now <= pool.deadline.v)
             THEN PFail("DeadlinePassed")
        ELSE IF ~(pool.release_count < pool.max_releases)
             THEN PFail("MaxReleasesReached")
        ELSE IF ~platform_fee.ok THEN PFail("Overflow")
        ELSE IF ~total_release.ok THEN PFail("Overflow")
        ELSE IF ~remaining.ok THEN PFail("Overflow")
        ELSE IF ~(remaining.v >= total_release.v) THEN PFail("InsufficientFunds")
        ELSE IF t.err # "Ok" THEN Late(t.err)
        ELSE IF ~total_released.ok THEN Late("Overflow")
        ELSE IF ~release_count.ok THEN Late("Overflow")
        ELSE IF ~remaining_balance.ok THEN Late("Overflow")
        ELSE [err |-> "Ok", bal |-> t.bal, issued |-> t.issued,
              rec |-> [pool EXCEPT !.total_released = total_released.v,
                                   !.release_count = release_count.v]]

partial_release(platform_authority) ==
    LET worker_amount == pool.payment_per_worker
        platform_fee == calculate_fee(worker_amount, pool.platform_fee_bps)
        total_release == checked_add(worker_amount, platform_fee.v)
        remaining == checked_sub(pool.total_funded, pool.total_released)
        t == RunTransfers(poolVault,
                 IfPositive("worker", worker_amount)
                     \o IfPositive("treasury", platform_fee.v), <<>>)
        \* "Update tracking", after the transfers
        total_released == checked_add(pool.total_released, total_release.v)
        release_count == checked_add(pool.release_count, 1)
        remaining_balance == checked_sub(pool.total_funded, total_released.v)
        Late(e) == [err |-> e, rec |-> pool, bal |-> poolVault, issued |-> t.issued]
    IN  IF ~(pool.status = "Funded" \/ pool.status = "Active")
        THEN PFail("InvalidStatus")
        ELSE IF pool.deadline.some /\ ~(now <= pool.deadline.v)
             THEN PFail("DeadlinePassed")
        ELSE IF ~(pool.release_count < pool.max_releases)
             THEN PFail("MaxReleasesReached")
        ELSE IF ~platform_fee.ok THEN PFail("Overflow")
        ELSE IF ~total_release.ok THEN PFail("Overflow")
        ELSE IF ~remaining.ok THEN PFail("Overflow")
        ELSE IF ~(remaining.v >= total_release.v) THEN PFail("InsufficientFunds")
        ELSE IF t.err # "Ok" THEN Late(t.err)
        ELSE IF ~total_released.ok THEN Late("Overflow")
        ELSE IF ~release_count.ok THEN Late("Overflow")
        ELSE IF ~remaining_balance.ok THEN Late("Overflow")
        ELSE [err |-> "Ok", bal |-> t.bal, issued |-> t.issued,
              rec |-> [pool EXCEPT !.total_released = total_released.v,
                                   !.release_count = release_count.v,
                                   !.status = "Active"]]

\* Faulty variant: the refund is the unused worker budget, without the fee
\* that was funded for it.
close_pool_escrow_unused_budget(client) ==
    LET remaining ==
            checked_mul(pool.max_releases - pool.release_count, pool.payment_per_worker)
        t == RunTransfers(poolVault, IfPositive("client", remaining.v), <<>>)
    IN  IF ~(pool.status = "Funded" \/ pool.status = "Active")
        THEN PFail("InvalidStatus")
        ELSE IF client # pool.client THEN PFail("Unauthorized")
        ELSE IF ~remaining.ok THEN PFail("Overflow")
        ELSE IF t.err # "Ok"
             THEN [err |-> t.err, rec |-> pool, bal |-> poolVault, issued |-> t.issued]
        ELSE [err |-> "Ok", bal |-> t.bal, issued |-> t.issued,
              rec |-> [pool EXCEPT !.status = "Closed", !.acct = "closed"]]

\* On success the pool account is closed by the `close = client` constraint.
close_pool_escrow(client) ==
    LET remaining == checked_sub(pool.total_funded, pool.total_released)
        t == RunTransfers(poolVault, IfPositive("client", remaining.v), <<>>)
    IN  IF ~(pool.status = "Funded" \/ pool.status = "Active")
        THEN PFail("InvalidStatus")
        ELSE IF client # pool.client THEN PFail("Unauthorized")
        ELSE IF ~remaining.ok THEN PFail("Overflow")
        ELSE IF t.err # "Ok"
             THEN [err |-> t.err, rec |-> pool, bal |-> poolVault, issued |-> t.issued]
        ELSE [err |-> "Ok", bal |-> t.bal, issued |-> t.issued,
              rec |-> [pool EXCEPT !.status = "Closed", !.acct = "closed"]]

\* ------------------------------------------------------------------------
\* Instructions as actions: constraints, then handler, then commit
\* ------------------------------------------------------------------------
Run(ctxErr, result, fail(_)) == IF ctxErr # "Ok" THEN fail(ctxErr) ELSE result

\* Inputs the model draws instruction arguments from: the valid argument
\* tuples, and tuples with one argument out of range.
ValidAmounts == {MIN_ESCROW_AMOUNT, MIN_ESCROW_AMOUNT + AmountOdd}
EscrowTypes == {"Task", "Employment"}
BadDeadlines == {Some(now - 1), Some(now), Some(now + MAX_ESCROW_DURATION + 1)}
LastDeadline == Some(now + MAX_ESCROW_DURATION)
EscrowIds == {1}
Clients == {"alice"}
WorkerBps == {0, 3333, BPS_DENOMINATOR, BPS_DENOMINATOR + 1}
PauseArgs == {NoBool, Some(FALSE)}

CreateEscrowArgs ==
    [worker : {"bob"}, amount : ValidAmounts, escrow_type : EscrowTypes,
     deadline : {None}]
    \cup [worker : {"bob"}, amount : {MIN_ESCROW_AMOUNT + AmountOdd},
          escrow_type : {"Task"}, deadline : {Some(now + 1)}]
    \cup [worker : {"alice", OffCurveKey}, amount : {MIN_ESCROW_AMOUNT},
          escrow_type : {"Task"}, deadline : {None}]
    \cup [worker : {"bob"}, amount : {MIN_ESCROW_AMOUNT - 1},
          escrow_type : {"Task"}, deadline : {None}]
    \cup [worker : {"bob"}, amount : {MIN_ESCROW_AMOUNT},
          escrow_type : {"Task"}, deadline : BadDeadlines]

CreatePoolArgs ==
    [amount : ValidAmounts, max_releases : 1 .. MaxReleases, deadline : {None}]
    \cup [amount : {MIN_ESCROW_AMOUNT + AmountOdd}, max_releases : {MaxReleases},
          deadline : {Some(now + 1)}]
    \cup [amount : {MIN_ESCROW_AMOUNT - 1}, max_releases : {1}, deadline : {None}]
    \cup [amount : {MIN_ESCROW_AMOUNT}, max_releases : {0, MAX_POOL_WORKERS + 1},
          deadline : {None}]
    \cup [amount : {MIN_ESCROW_AMOUNT}, max_releases : {1}, deadline : BadDeadlines]

InitializeArgs ==
    [treasury : {TreasuryKey}, platform_authority : {"hot"}]
    \cup [treasury : {DefaultPubkey}, platform_authority : {"hot"}]
    \cup [treasury : {TreasuryKey}, platform_authority : {DefaultPubkey}]

UpdateArgs ==
    [new_treasury : {NoKey}, new_platform_authority : {NoKey}, paused : PauseArgs]
    \cup [new_treasury : {NoKey}, new_platform_authority : {Some(DefaultPubkey)},
          paused : {NoBool}]

Proposals == {"alice", DefaultPubkey}

Tx_initialize_config ==
    \E admin \in Signers, a \in InitializeArgs :
        CommitConfig("initialize_config", admin,
            Run(InitializeConfig(admin, a.treasury),
                initialize_config(admin, a.treasury, a.platform_authority), CFail))

UpdateConfigWith(args) ==
    \E admin \in Signers, a \in args :
        CommitConfig("update_config", admin,
            Run(UpdateConfig(admin),
                update_config(a.new_treasury, a.new_platform_authority, a.paused),
                CFail))

Tx_update_config == UpdateConfigWith(UpdateArgs)

ProposeAdminTo(candidates) ==
    \E admin \in Signers, new_admin \in candidates :
        CommitConfig("propose_admin", admin,
            Run(ProposeAdmin(admin), propose_admin(new_admin), CFail))

Tx_propose_admin == ProposeAdminTo(Proposals)

Tx_accept_admin ==
    \E new_admin \in Signers :
        CommitConfig("accept_admin", new_admin,
            Run(AcceptAdmin(new_admin), accept_admin(new_admin), CFail))

Tx_cancel_admin_transfer ==
    \E admin \in Signers :
        CommitConfig("cancel_admin_transfer", admin,
            Run(UpdateConfig(admin), cancel_admin_transfer, CFail))

CreateEscrowWith(args) ==
    \E client \in Clients, escrow_id \in EscrowIds, a \in args :
        CommitEscrow("create_escrow", client,
            Run(CreateEscrow(client, a.worker),
                create_escrow(client, a.worker, escrow_id, a.amount, a.escrow_type,
                              a.deadline),
                EFail)
                @@ [deadline |-> a.deadline])

Tx_create_escrow == CreateEscrowWith(CreateEscrowArgs)

Tx_fund_escrow ==
    \E c \in Signers :
        CommitEscrow("fund_escrow", c, Run(FundEscrow(c), fund_escrow(c), EFail))

Tx_release_escrow ==
    \E c \in Signers :
        CommitEscrow("release_escrow", c, Run(ReleaseEscrow(c), release_escrow(c), EFail))

Tx_freeze_escrow ==
    \E c \in Signers :
        CommitEscrow("freeze_escrow", c, Run(FreezeEscrow(c), freeze_escrow(c), EFail))

Tx_admin_release_to_worker ==
    \E c \in Signers :
        CommitEscrow("admin_release_to_worker", c,
            Run(AdminActionCtx(c), admin_release_to_worker(c), EFail))

Tx_admin_refund_to_client ==
    \E c \in Signers :
        CommitEscrow("admin_refund_to_client", c,
            Run(AdminRefundCtx(c), admin_refund_to_client(c), EFail))

Tx_refund_escrow ==
    \E c \in Signers :
        CommitEscrow("refund_escrow", c, Run(RefundEscrow(c), refund_escrow(c), EFail))

Tx_cancel_escrow ==
    \E c \in Signers :
        CommitEscrow("cancel_escrow", c, Run(CancelEscrow(c), cancel_escrow(c), EFail))

Tx_admin_split_funds ==
    \E c \in Signers, worker_bps \in WorkerBps :
        CommitEscrow("admin_split_funds", c,
            Run(AdminSplit(c), admin_split_funds(c, worker_bps), EFail)
                @@ [arg |-> worker_bps])

Tx_close_escrow ==
    \E c \in Signers :
        CommitEscrow("close_escrow", c, Run(CloseEscrow(c), close_escrow(c), EFail))

CreatePoolEscrowWith(args) ==
    \E client \in Clients, escrow_id \in EscrowIds, a \in args :
        CommitPool("create_pool_escrow", client,
            Run(CreatePoolEscrow(client),
                create_pool_escrow(client, escrow_id, a.amount, a.max_releases,
                                   a.deadline),
                PFail)
                @@ [deadline |-> a.deadline])

Tx_create_pool_escrow == CreatePoolEscrowWith(CreatePoolArgs)

Tx_fund_pool_escrow ==
    \E c \in Signers :
        CommitPool("fund_pool_escrow", c,
            Run(FundPoolEscrow(c), fund_pool_escrow(c), PFail))

Tx_partial_release ==
    \E c \in Signers :
        CommitPool("partial_release", c,
            Run(PartialRelease(c), partial_release(c), PFail))

Tx_close_pool_escrow ==
    \E c \in Signers :
        CommitPool("close_pool_escrow", c,
            Run(ClosePoolEscrow(c), close_pool_escrow(c), PFail))

\* The clock advances.  The handlers read the clock to compare it with a
\* record's deadline (and to stamp events and *_at fields), so time matters
\* only while a record with a deadline exists.
Tick ==
    /\ \/ escrow.acct = "open" /\ escrow.deadline.some
       \/ pool.acct = "open" /\ pool.deadline.some
    /\ now < MaxTime
    /\ now' = now + 1
    /\ UNCHANGED <<config, escrowVars, poolVars, last, calc>>

\* Records are independent units of state that share only the config, which
\* no record instruction writes; a behaviour follows one record.
OnlyEscrow == pool.acct = "uninit"
OnlyPool == escrow.acct = "uninit"

Next ==
    \/ Tx_initialize_config
    \/ Tx_update_config
    \/ Tx_propose_admin
    \/ Tx_accept_admin
    \/ Tx_cancel_admin_transfer
    \/ OnlyEscrow /\ Tx_create_escrow
    \/ OnlyEscrow /\ Tx_fund_escrow
    \/ OnlyEscrow /\ Tx_release_escrow
    \/ OnlyEscrow /\ Tx_freeze_escrow
    \/ OnlyEscrow /\ Tx_admin_release_to_worker
    \/ OnlyEscrow /\ Tx_admin_refund_to_client
    \/ OnlyEscrow /\ Tx_refund_escrow
    \/ OnlyEscrow /\ Tx_cancel_escrow
    \/ OnlyEscrow /\ Tx_admin_split_funds
    \/ OnlyEscrow /\ Tx_close_escrow
    \/ OnlyPool /\ Tx_create_pool_escrow
    \/ OnlyPool /\ Tx_fund_pool_escrow
    \/ OnlyPool /\ Tx_partial_release
    \/ OnlyPool /\ Tx_close_pool_escrow
    \/ Tick

Spec == Init /\ [][Next]_vars

\* ------------------------------------------------------------------------
\* Vocabulary of the properties
\* ------------------------------------------------------------------------
\* This step is an invocation of instruction `op` (the clock step is the only
\* step that is not an instruction).
Called(op) == now' = now /\ last'.op = op
CalledBy(op, who) == Called(op) /\ last'.caller = who
Succeeded == last'.err = "Ok"
Failed(e) == last'.err = e

PaidOut == paid.worker + paid.treasury + paid.client
PoolPaidOut == poolPaid.worker + poolPaid.treasury + poolPaid.client

AdminOps == {"admin_release_to_worker", "admin_refund_to_client", "admin_split_funds"}
ClientOps == {"fund_escrow", "release_escrow", "refund_escrow", "cancel_escrow",
              "close_escrow"}
PoolClientOps == {"fund_pool_escrow", "close_pool_escrow"}
ConfigAdminOps == {"update_config", "propose_admin", "cancel_admin_transfer"}

\* C1: the tokens paid out of an escrow's vault (to worker, treasury and
\* client together) never exceed total_amount, and equal it exactly once the
\* escrow is Released or Refunded.
C1_Conservation ==
    escrow.acct # "uninit" =>
        /\ PaidOut <= escrow.total_amount
        /\ escrow.status \in {"Released", "Refunded"} => PaidOut = escrow.total_amount

\* A frozen escrow of an odd amount was split three ways.
C1_Witness ==
    /\ escrow.status = "Released"
    /\ last.op = "admin_split_funds" /\ last.err = "Ok"
    /\ paid.worker > 0 /\ paid.client > 0 /\ paid.treasury > 0
    /\ escrow.worker_amount % BPS_DENOMINATOR # 0

\* C2: a pool never executes more than max_releases releases and never
\* releases more than it was funded with, whatever instructions are called.
C2_PoolBounds ==
    /\ pool.release_count <= pool.max_releases
    /\ pool.total_released <= pool.total_funded

\* Every release of a pool with more than one release has been executed.
C2_Witness ==
    /\ pool.acct = "open" /\ pool.status = "Active"
    /\ pool.max_releases > 1
    /\ pool.release_count = pool.max_releases

\* C3: between funding and closing the pool's vault holds exactly
\* total_funded - total_released, and once the pool is closed the payments to
\* workers, treasury and client add up to total_funded.
C3_PoolConservation ==
    /\ pool.acct = "open" /\ pool.status \in {"Funded", "Active"}
           => poolVault = pool.total_funded - pool.total_released
    /\ pool.acct = "closed"
           => /\ PoolPaidOut = pool.total_funded
              /\ poolPaid.client = pool.total_funded - pool.total_released
              /\ poolVault = 0

\* A pool was closed after a release, with a refund to the client.
C3_Witness ==
    /\ pool.acct = "closed" /\ pool.status = "Closed"
    /\ pool.release_count > 0
    /\ poolPaid.client > 0 /\ poolPaid.worker > 0 /\ poolPaid.treasury > 0

\* The identity an instruction's account constraints demand of its caller,
\* read in the state the instruction is called in.
Required(op) ==
    IF op \in ClientOps THEN escrow.client
    ELSE IF op \in PoolClientOps THEN pool.client
    ELSE IF op = "partial_release" THEN config.platform_authority
    ELSE config.admin

\* C4: an escrow is settled at most once; once it has been released or
\* refunded, every later release_escrow, refund_escrow or admin_* call fails
\* and moves no funds, and it fails with InvalidStatus when made by the
\* identity the instruction demands.
C4_SettledOnce ==
    /\ [](settlements <= 1)
    /\ [][\A op \in SettleOps :
            (Called(op) /\ settlements >= 1) =>
                /\ ~Succeeded
                /\ last'.issued = <<>>
                /\ UNCHANGED escrowVars
                /\ (escrow.acct = "open" /\ last'.caller = Required(op))
                       => Failed("InvalidStatus")]_vars

\* The client replayed release_escrow on an escrow that was already settled.
C4_Witness ==
    /\ settlements = 1
    /\ escrow.acct = "open" /\ escrow.status \in {"Released", "Refunded"}
    /\ last.op = "release_escrow" /\ last.caller = escrow.client
    /\ last.err = "InvalidStatus"

\* C5: the status of an escrow only moves Created -> Funded, Funded ->
\* Released, Refunded or Frozen, and Frozen -> Released or Refunded; Released
\* and Refunded are terminal and no status is ever re-entered.
Forward ==
    {<<"Created", "Funded">>, <<"Funded", "Released">>, <<"Funded", "Refunded">>,
     <<"Funded", "Frozen">>, <<"Frozen", "Released">>, <<"Frozen", "Refunded">>}

C5_ForwardOnly ==
    [][(escrow.acct # "uninit" /\ escrow'.status # escrow.status)
           => <<escrow.status, escrow'.status>> \in Forward]_vars

\* An escrow went Created -> Funded -> Frozen -> Refunded.
C5_Witness ==
    /\ escrow.status = "Refunded"
    /\ last.op = "admin_refund_to_client" /\ last.err = "Ok"

\* C6: an instruction called on a record whose status it does not accept
\* fails and leaves record and vault unchanged; the error is InvalidStatus
\* (a caller the account constraints reject is turned away with Unauthorized
\* before the status is looked at).
Accepts(op) ==
    CASE op = "fund_escrow" -> {"Created"}
      [] op = "cancel_escrow" -> {"Created"}
      [] op \in {"release_escrow", "refund_escrow", "freeze_escrow"} -> {"Funded"}
      [] op \in AdminOps -> {"Frozen"}
      [] op = "close_escrow" -> {"Released", "Refunded"}
      [] op = "fund_pool_escrow" -> {"Created"}
      [] op \in {"partial_release", "close_pool_escrow"} -> {"Funded", "Active"}

EscrowStatusOps == ClientOps \cup AdminOps \cup {"freeze_escrow"}
PoolStatusOps == PoolClientOps \cup {"partial_release"}

\* The caller passes the identity constraint of the instruction's accounts.
PassesConstraint(op) == op = "freeze_escrow" \/ last'.caller = Required(op)

WrongStatus(op) ==
    IF op \in EscrowStatusOps
    THEN escrow.acct = "open" /\ escrow.status \notin Accepts(op)
    ELSE pool.acct = "open" /\ pool.status \notin Accepts(op)

StatusOps == EscrowStatusOps \cup PoolStatusOps

C6_InvalidStatus ==
    [][(now' = now /\ last'.op \in StatusOps /\ config.init
            /\ WrongStatus(last'.op)) =>
           /\ UNCHANGED <<escrowVars, poolVars>>
           /\ last'.issued = <<>>
           /\ IF PassesConstraint(last'.op) THEN Failed("InvalidStatus")
                                            ELSE Failed("Unauthorized")]_vars

\* The client tried to cancel an escrow that was already funded.
C6_Witness ==
    /\ last.op = "cancel_escrow" /\ last.caller = escrow.client
    /\ escrow.acct = "open" /\ escrow.status = "Funded" /\ vault > 0
    /\ last.err = "InvalidStatus"

\* C7: an instruction that fails has issued no outbound transfer: every
\* check that can fail comes before the first transfer, and the checked
\* operations after the transfers of partial_release never fail.
C7_FailBeforeTransfer == last.err # "Ok" => last.issued = <<>>

\* admin_split_funds was refused for its percentage on a funded vault.
C7_Witness ==
    /\ last.op = "admin_split_funds" /\ last.err = "InvalidPercentage"
    /\ escrow.status = "Frozen" /\ vault = escrow.total_amount

\* C8: client instructions succeed only for the record's client,
\* partial_release only for Config.platform_authority, and config and admin_*
\* instructions only for Config.admin; any other caller gets Unauthorized and
\* nothing changes.
Refused == Failed("Unauthorized") /\ UNCHANGED <<config, escrowVars, poolVars>>

AuthOps ==
    ClientOps \cup PoolClientOps \cup ConfigAdminOps \cup AdminOps
        \cup {"partial_release"}

\* The accounts the instruction names exist.
AccountsExist(op) ==
    IF op \in ClientOps THEN escrow.acct = "open"
    ELSE IF op \in PoolClientOps THEN pool.acct = "open"
    ELSE IF op = "partial_release" THEN config.init /\ pool.acct = "open"
    ELSE IF op \in AdminOps THEN config.init /\ escrow.acct = "open"
    ELSE config.init

C8_Authorization ==
    [][(now' = now /\ last'.op \in AuthOps) =>
           /\ Succeeded => last'.caller = Required(last'.op)
           /\ AccountsExist(last'.op) =>
                  IF last'.caller = Required(last'.op)
                  THEN ~Failed("Unauthorized") ELSE Refused]_vars

\* The worker tried to release a funded escrow to themselves.
C8_Witness ==
    /\ last.op = "release_escrow" /\ last.caller = escrow.worker
    /\ escrow.status = "Funded" /\ vault = escrow.total_amount
    /\ last.err = "Unauthorized"

\* C9: while an escrow is Frozen, release_escrow and refund_escrow fail
\* (with InvalidStatus for the client), no call by anyone but Config.admin
\* changes the escrow, and it leaves Frozen only through an admin_*
\* instruction called by Config.admin.
Frozen == escrow.acct = "open" /\ escrow.status = "Frozen"

C9_FrozenAdminOnly ==
    [][Frozen =>
        /\ \A op \in {"release_escrow", "refund_escrow"} :
              Called(op) =>
                  /\ ~Succeeded
                  /\ last'.caller = escrow.client => Failed("InvalidStatus")
        /\ (now' = now /\ last'.caller # config.admin) => UNCHANGED escrowVars
        /\ ~Frozen' => /\ last'.op \in AdminOps
                       /\ last'.caller = config.admin
                       /\ Succeeded]_vars

\* The client asked for a refund of a frozen escrow after its deadline.
C9_Witness ==
    /\ Frozen /\ escrow.deadline.some /\ now > escrow.deadline.v
    /\ last.op = "refund_escrow" /\ last.caller = escrow.client
    /\ last.err = "InvalidStatus"

\* ------------------------------------------------------------------------
\* The admin overrides over arbitrary escrow account contents
\* ------------------------------------------------------------------------
\* freeze_escrow demands Funded and fund_escrow sets funded_at, so the
\* instructions never produce a Frozen escrow without funded_at.  The
\* overrides guard against it all the same; this specification hands them
\* every well-formed account content, as dispute_tests does.
EscrowStatus == {"Created", "Funded", "Released", "Refunded", "Frozen"}

AccountContents ==
    {[acct |-> "open", escrow_id |-> 1, client |-> "alice", worker |-> "bob",
      mint |-> MintKey, vault |-> VaultKey,
      worker_amount |-> a, total_amount |-> a + calculate_fee(a, FeeBpsOf(ty)).v,
      platform_fee_bps |-> FeeBpsOf(ty), escrow_type |-> ty, status |-> st,
      funded_at |-> f, deadline |-> None, version |-> 1] :
        a \in ValidAmounts, ty \in EscrowTypes, st \in EscrowStatus,
        f \in {None, Some(0)}}

InitAccounts ==
    /\ config = [init |-> TRUE, admin |-> EXPECTED_ADMIN, treasury |-> TreasuryKey,
                 platform_authority |-> "hot", paused |-> FALSE,
                 pending_admin |-> NoKey]
    /\ escrow \in AccountContents
    /\ vault \in {0, escrow.total_amount}
    /\ paid = NoPayments
    /\ settlements = 0
    /\ pool = NoPool
    /\ poolVault = 0
    /\ poolPaid = NoPayments
    /\ now = 0
    /\ last = [op |-> "none", caller |-> DefaultPubkey, err |-> "Ok", issued |-> <<>>,
              arg |-> 0, deadline |-> None]
    /\ calc = NoCalc

NextOverrides ==
    \/ Tx_admin_release_to_worker
    \/ Tx_admin_refund_to_client
    \/ Tx_admin_split_funds

SpecOverrides == InitAccounts /\ [][NextOverrides]_vars

\* C10: the three admin_* overrides fail with InvalidStatus unless the escrow
\* is Frozen, and with NotFunded when it is Frozen but funded_at is unset; in
\* both cases, whoever calls, the record is unchanged and no funds move.
C10_OverrideGuards ==
    [][\A op \in AdminOps :
          (Called(op) /\ escrow.acct = "open"
               /\ (escrow.status # "Frozen" \/ ~escrow.funded_at.some)) =>
              /\ ~Succeeded
              /\ last'.issued = <<>>
              /\ UNCHANGED escrowVars
              /\ last'.caller = config.admin =>
                     IF escrow.status # "Frozen" THEN Failed("InvalidStatus")
                                                 ELSE Failed("NotFunded")]_vars

\* The admin tried to release a Frozen escrow that was never funded although
\* its vault holds tokens.
C10_Witness ==
    /\ Frozen /\ ~escrow.funded_at.some /\ vault = escrow.total_amount
    /\ last.op = "admin_release_to_worker" /\ last.caller = config.admin
    /\ last.err = "NotFunded"

\* ------------------------------------------------------------------------
\* What the instructions pay
\* ------------------------------------------------------------------------
\* f is floor(x * bps / BPS_DENOMINATOR), stated by the two inequalities
\* f * D <= x * bps < (f + 1) * D with the multiples of D taken out of x.
IsFloorShare(f, x, bps) ==
    LET g == f - (x \div BPS_DENOMINATOR) * bps
        low == (x % BPS_DENOMINATOR) * bps
    IN  g * BPS_DENOMINATOR <= low /\ low < (g + 1) * BPS_DENOMINATOR

\* What this step paid to a destination.
PaidTo(to) == SumTo(last'.issued, to)

Funded == escrow.acct = "open" /\ escrow.status = "Funded"

\* C11: refund_escrow succeeds only on a Funded escrow with a deadline that
\* the clock has strictly passed; called by the client on a Funded escrow it
\* fails with NoDeadlineSet when there is no deadline and with
\* DeadlineNotPassed while now <= deadline (now = deadline included); on
\* success the client receives exactly total_amount, nobody else receives
\* anything, and the status becomes Refunded.
C11_RefundAfterDeadline ==
    [][Called("refund_escrow") =>
          /\ Succeeded <=>
                 /\ Funded /\ last'.caller = escrow.client
                 /\ escrow.deadline.some /\ now > escrow.deadline.v
          /\ (Funded /\ last'.caller = escrow.client /\ ~escrow.deadline.some)
                 => Failed("NoDeadlineSet")
          /\ (Funded /\ last'.caller = escrow.client /\ escrow.deadline.some
                  /\ now <= escrow.deadline.v) => Failed("DeadlineNotPassed")
          /\ Succeeded =>
                 /\ last'.issued = <<Pay("client", escrow.total_amount)>>
                 /\ vault' = vault - escrow.total_amount
                 /\ paid'.client = paid.client + escrow.total_amount
                 /\ escrow' = [escrow EXCEPT !.status = "Refunded"]
          /\ ~Succeeded => UNCHANGED escrowVars]_vars

\* The client was refused a refund at the very second of the deadline.
C11_Witness ==
    /\ Funded /\ escrow.deadline.some /\ now = escrow.deadline.v
    /\ last.op = "refund_escrow" /\ last.caller = escrow.client
    /\ last.err = "DeadlineNotPassed"

\* C12: release_escrow called by the client on a Funded escrow succeeds, pays
\* exactly worker_amount to the worker and exactly total_amount -
\* worker_amount, the fee of worker_amount at the escrow's rate computed at
\* creation, to the treasury, and sets the status to Released.
C12_ReleasePays ==
    [][Called("release_escrow") =>
          /\ (Funded /\ last'.caller = escrow.client) => Succeeded
          /\ Succeeded =>
                 /\ Funded
                 /\ PaidTo("worker") = escrow.worker_amount
                 /\ PaidTo("treasury") = escrow.total_amount - escrow.worker_amount
                 /\ IsFloorShare(PaidTo("treasury"), escrow.worker_amount,
                                 escrow.platform_fee_bps)
                 /\ PaidTo("client") = 0
                 /\ paid' = Credit(paid, last'.issued)
                 /\ vault' = vault - escrow.total_amount
                 /\ escrow' = [escrow EXCEPT !.status = "Released"]]_vars

\* An employment escrow of an odd amount was released by its client.
C12_Witness ==
    /\ escrow.status = "Released" /\ last.op = "release_escrow" /\ last.err = "Ok"
    /\ escrow.escrow_type = "Employment"
    /\ escrow.worker_amount % BPS_DENOMINATOR # 0
    /\ paid.worker = escrow.worker_amount /\ paid.treasury > 0

\* C13: every successful partial_release pays exactly payment_per_worker to
\* the worker and floor(payment_per_worker * platform_fee_bps / 10000) to the
\* treasury, adds the sum of the two to total_released and 1 to
\* release_count, and leaves the pool Active; the platform authority's call
\* succeeds whenever releases are left and the deadline has not passed.
Releasable ==
    /\ pool.acct = "open" /\ pool.status \in {"Funded", "Active"}
    /\ pool.release_count < pool.max_releases
    /\ pool.deadline.some => now <= pool.deadline.v

C13_PartialReleasePays ==
    [][Called("partial_release") =>
          /\ (Releasable /\ config.init
                  /\ last'.caller = config.platform_authority) => Succeeded
          /\ Succeeded =>
                 /\ PaidTo("worker") = pool.payment_per_worker
                 /\ IsFloorShare(PaidTo("treasury"), pool.payment_per_worker,
                                 pool.platform_fee_bps)
                 /\ PaidTo("client") = 0
                 /\ poolPaid' = Credit(poolPaid, last'.issued)
                 /\ poolVault' = poolVault - PaidTo("worker") - PaidTo("treasury")
                 /\ pool' = [pool EXCEPT
                        !.total_released = @ + PaidTo("worker") + PaidTo("treasury"),
                        !.release_count = @ + 1,
                        !.status = "Active"]]_vars

\* The first of several releases of a pool with an odd payment.
C13_Witness ==
    /\ last.op = "partial_release" /\ last.err = "Ok"
    /\ pool.status = "Active" /\ pool.release_count = 1 /\ pool.max_releases > 1
    /\ pool.payment_per_worker % BPS_DENOMINATOR # 0
    /\ poolPaid.worker = pool.payment_per_worker /\ poolPaid.treasury > 0

\* C14 as stated: on a pool whose release_count equals max_releases every
\* partial_release (here: by the platform authority) fails with
\* MaxReleasesReached and leaves the pool unchanged.
Exhausted == pool.acct = "open" /\ pool.release_count = pool.max_releases
DeadlineOver == pool.deadline.some /\ now > pool.deadline.v

C14_AlwaysMaxReleasesReached ==
    [][(Called("partial_release") /\ Exhausted /\ config.init
            /\ last'.caller = config.platform_authority) =>
           /\ Failed("MaxReleasesReached")
           /\ UNCHANGED poolVars]_vars

\* C14, amended: on a pool whose release_count equals max_releases every
\* partial_release fails, issues no transfer and leaves the pool unchanged;
\* the platform authority is answered MaxReleasesReached, or DeadlinePassed
\* when the pool's deadline has passed (that check comes first).  The pool
\* stays exhausted until it is closed, so after max_releases successful
\* releases no release ever succeeds.
C14_ExhaustedPoolRefuses ==
    [][Exhausted =>
          /\ pool'.acct = "open" => Exhausted'
          /\ Called("partial_release") =>
                 /\ ~Succeeded
                 /\ last'.issued = <<>>
                 /\ UNCHANGED poolVars
                 /\ (config.init /\ last'.caller = config.platform_authority) =>
                        IF DeadlineOver THEN Failed("DeadlinePassed")
                                        ELSE Failed("MaxReleasesReached")]_vars

\* One release too many was asked of a pool of several releases.
C14_Witness ==
    /\ Exhausted /\ pool.max_releases > 1 /\ ~DeadlineOver
    /\ last.op = "partial_release" /\ last.caller = config.platform_authority
    /\ last.err = "MaxReleasesReached"

C16_NothingRemains ==
    (pool.acct # "uninit" /\ pool.release_count = pool.max_releases) =>
        /\ pool.total_released = pool.total_funded
        /\ pool.acct = "closed" => poolPaid.client = 0

\* C17: create_pool_escrow sets total_funded to payment_per_worker *
\* max_releases plus the floor of that product times the fee rate over
\* 10000, with total_released = 0 and release_count = 0, and no later
\* instruction changes total_funded (nor the payment, the number of releases
\* or the rate it was computed from).
PoolBudget == pool.payment_per_worker * pool.max_releases

C17_TotalFundedFixed ==
    /\ [](pool.acct # "uninit" =>
              /\ pool.platform_fee_bps = DEFAULT_FEE_BPS
              /\ IsFloorShare(pool.total_funded - PoolBudget, PoolBudget,
                              pool.platform_fee_bps))
    /\ [][/\ (Called("create_pool_escrow") /\ Succeeded) =>
                 /\ pool'.total_released = 0
                 /\ pool'.release_count = 0
                 /\ pool'.status = "Created"
                 /\ poolVault' = 0
          /\ pool.acct # "uninit" =>
                 /\ pool'.total_funded = pool.total_funded
                 /\ pool'.payment_per_worker = pool.payment_per_worker
                 /\ pool'.max_releases = pool.max_releases
                 /\ pool'.platform_fee_bps = pool.platform_fee_bps]_vars

\* A pool of several releases whose per-payment fee leaves a remainder has
\* paid out all of them, and total_funded is what creation set.
C17_Witness ==
    /\ pool.acct = "open" /\ pool.status = "Active"
    /\ pool.max_releases > 1 /\ pool.release_count = pool.max_releases
    /\ ((pool.payment_per_worker % BPS_DENOMINATOR) * pool.platform_fee_bps)
           % BPS_DENOMINATOR # 0
    /\ pool.total_funded > pool.total_released

C19_SplitDividesTotal ==
    [][(Called("admin_split_funds") /\ Succeeded /\ escrow.version = 1) =>
           /\ PaidTo("worker") + PaidTo("client") = escrow.total_amount
           /\ PaidTo("treasury") = 0]_vars

\* C20: every admin resolution of a Frozen escrow (admin_release_to_worker,
\* admin_refund_to_client, admin_split_funds at any worker_bps) pays the
\* treasury exactly total_amount - worker_amount: the platform keeps its fee
\* whatever the outcome.
C20_FeeAlwaysRetained ==
    [][(now' = now /\ last'.op \in AdminOps /\ Succeeded) =>
           PaidTo("treasury") = escrow.total_amount - escrow.worker_amount]_vars

\* ------------------------------------------------------------------------
\* Creation and funding
\* ------------------------------------------------------------------------
Created == escrow.acct = "open" /\ escrow.status = "Created"

\* C21: create_escrow stores the rate 1000 bps for a Task and 500 bps for an
\* Employment escrow and total_amount = worker_amount + floor(worker_amount *
\* rate / 10000); fund_escrow, called by the client on the Created escrow,
\* succeeds and moves exactly total_amount into the empty vault, so a Funded
\* escrow's vault holds total_amount.
C21_UpfrontFee ==
    /\ [](Funded => vault = escrow.total_amount)
    /\ [][/\ (Called("create_escrow") /\ Succeeded) =>
                 /\ escrow'.platform_fee_bps =
                        (IF escrow'.escrow_type = "Task" THEN 1000 ELSE 500)
                 /\ escrow'.total_amount >= escrow'.worker_amount
                 /\ IsFloorShare(escrow'.total_amount - escrow'.worker_amount,
                                 escrow'.worker_amount, escrow'.platform_fee_bps)
                 /\ escrow'.status = "Created"
                 /\ vault' = 0
          /\ Called("fund_escrow") =>
                 /\ (Created /\ last'.caller = escrow.client) => Succeeded
                 /\ Succeeded =>
                        /\ vault' - vault = escrow.total_amount
                        /\ vault' = escrow.total_amount
                        /\ last'.issued = <<>>
                        /\ paid' = paid
                        /\ escrow' = [escrow EXCEPT !.status = "Funded",
                                                    !.funded_at = Some(now)]]_vars

\* An employment escrow of an odd amount has just been funded.
C21_Witness ==
    /\ Funded /\ last.op = "fund_escrow" /\ last.err = "Ok"
    /\ escrow.escrow_type = "Employment" /\ escrow.platform_fee_bps = 500
    /\ escrow.worker_amount % BPS_DENOMINATOR # 0
    /\ vault = escrow.total_amount /\ vault > escrow.worker_amount

\* ------------------------------------------------------------------------
\* Deadlines at creation
\* ------------------------------------------------------------------------
\* The create instructions called at every clock value with deadlines on
\* both sides of the two limits, on an initialised config.
DeadlineChoices ==
    BadDeadlines
        \cup {Some(now + 1), Some(now + MAX_ESCROW_DURATION - 1), LastDeadline}

EscrowDeadlineArgs ==
    [worker : {"bob"}, amount : {MIN_ESCROW_AMOUNT}, escrow_type : {"Task"},
     deadline : DeadlineChoices]
PoolDeadlineArgs ==
    [amount : {MIN_ESCROW_AMOUNT}, max_releases : {1}, deadline : DeadlineChoices]

InitClock ==
    /\ config = [init |-> TRUE, admin |-> EXPECTED_ADMIN, treasury |-> TreasuryKey,
                 platform_authority |-> "hot", paused |-> FALSE,
                 pending_admin |-> NoKey]
    /\ escrow = NoEscrow
    /\ vault = 0
    /\ paid = NoPayments
    /\ settlements = 0
    /\ pool = NoPool
    /\ poolVault = 0
    /\ poolPaid = NoPayments
    /\ now \in 0 .. MaxTime
    /\ last = [op |-> "none", caller |-> DefaultPubkey, err |-> "Ok", issued |-> <<>>,
              arg |-> 0, deadline |-> None]
    /\ calc = NoCalc

Tx_create_escrow_at == CreateEscrowWith(EscrowDeadlineArgs)
Tx_create_pool_escrow_at == CreatePoolEscrowWith(PoolDeadlineArgs)

NextCreate ==
    \/ Tx_create_escrow_at
    \/ Tx_create_pool_escrow_at

SpecCreate == InitClock /\ [][NextCreate]_vars

\* The create instructions and the record each of them initialises.
CreateOps == {"create_escrow", "create_pool_escrow"}
Creatable(op) ==
    /\ config.init /\ ~config.paused
    /\ IF op = "create_escrow" THEN escrow.acct = "uninit" ELSE pool.acct = "uninit"

\* C22: a create instruction called at time t with deadline d (and otherwise
\* valid arguments) fails with DeadlineInPast when d <= t, with
\* DeadlineTooFar when d > t + 365 days, and succeeds, storing d, when
\* t < d <= t + 365 days; a failed create leaves no record.
C22_DeadlineWindow ==
    [][(now' = now /\ last'.op \in CreateOps /\ last'.deadline.some
            /\ Creatable(last'.op)) =>
           LET d == last'.deadline.v
               year == 365 * 24 * 60 * 60
               created == IF last'.op = "create_escrow" THEN escrow' ELSE pool'
           IN  /\ d <= now => Failed("DeadlineInPast")
               /\ d > now + year => Failed("DeadlineTooFar")
               /\ (now < d /\ d <= now + year) =>
                      /\ Succeeded
                      /\ created.acct = "open"
                      /\ created.deadline = Some(d)
               /\ ~Succeeded =>
                      /\ UNCHANGED <<escrowVars, poolVars>>
                      /\ created.acct = "uninit"]_vars

\* Some time after the start, a pool was created with a deadline exactly one
\* year after the clock.
C22_Witness ==
    /\ now > 0
    /\ last.op = "create_pool_escrow" /\ last.err = "Ok"
    /\ last.deadline = Some(now + 365 * 24 * 60 * 60)
    /\ pool.acct = "open" /\ pool.deadline = last.deadline

\* ------------------------------------------------------------------------
\* Disputes
\* ------------------------------------------------------------------------
\* The identities freeze_escrow accepts.
MayFreeze(who) == who = escrow.client \/ who = escrow.worker \/ who = config.admin

\* C23: freeze_escrow succeeds exactly when the escrow is Funded and the
\* caller is its client, its worker or the current admin, and then only sets
\* the status to Frozen; on an escrow in another status it fails with
\* InvalidStatus, for another caller on a Funded escrow with Unauthorized,
\* and a failed call leaves record and vault unchanged.
C23_Freeze ==
    [][(Called("freeze_escrow") /\ escrow.acct = "open") =>
          /\ Succeeded <=> (escrow.status = "Funded" /\ MayFreeze(last'.caller))
          /\ Succeeded =>
                 /\ escrow' = [escrow EXCEPT !.status = "Frozen"]
                 /\ last'.issued = <<>>
                 /\ UNCHANGED <<vault, paid, settlements>>
          /\ escrow.status # "Funded" => Failed("InvalidStatus")
          /\ (escrow.status = "Funded" /\ ~MayFreeze(last'.caller))
                 => Failed("Unauthorized")
          /\ ~Succeeded => UNCHANGED escrowVars]_vars

\* The admin, who is neither client nor worker, froze a funded escrow.
C23_Witness ==
    /\ Frozen /\ last.op = "freeze_escrow" /\ last.err = "Ok"
    /\ last.caller = config.admin
    /\ last.caller # escrow.client /\ last.caller # escrow.worker
    /\ vault = escrow.total_amount

\* ------------------------------------------------------------------------
\* Admin transfer
\* ------------------------------------------------------------------------
\* The two-step transfer with every identity as a candidate (the admin
\* itself included), next to a disputed escrow for the admin_* instructions
\* to act on: the state after initialize_config by the deployer and
\* create_escrow, fund_escrow and freeze_escrow of one escrow.
AdminCandidates == Signers \cup {DefaultPubkey}

DisputedEscrow ==
    [acct |-> "open", escrow_id |-> 1, client |-> "alice", worker |-> "bob",
     mint |-> MintKey, vault |-> VaultKey,
     worker_amount |-> MIN_ESCROW_AMOUNT,
     total_amount |-> MIN_ESCROW_AMOUNT
                          + calculate_fee(MIN_ESCROW_AMOUNT, DEFAULT_FEE_BPS).v,
     platform_fee_bps |-> DEFAULT_FEE_BPS, escrow_type |-> "Task",
     status |-> "Frozen", funded_at |-> Some(0), deadline |-> None, version |-> 1]

InitDispute ==
    /\ config = [init |-> TRUE, admin |-> EXPECTED_ADMIN, treasury |-> TreasuryKey,
                 platform_authority |-> "hot", paused |-> FALSE,
                 pending_admin |-> NoKey]
    /\ escrow = DisputedEscrow
    /\ vault = escrow.total_amount
    /\ paid = NoPayments
    /\ settlements = 0
    /\ pool = NoPool
    /\ poolVault = 0
    /\ poolPaid = NoPayments
    /\ now = 0
    /\ last = [op |-> "none", caller |-> DefaultPubkey, err |-> "Ok", issued |-> <<>>,
              arg |-> 0, deadline |-> None]
    /\ calc = NoCalc

Tx_propose_admin_any == ProposeAdminTo(AdminCandidates)

NextAdminTransfer ==
    \/ Tx_update_config
    \/ Tx_propose_admin_any
    \/ Tx_accept_admin
    \/ Tx_cancel_admin_transfer
    \/ Tx_admin_release_to_worker
    \/ Tx_admin_refund_to_client
    \/ Tx_admin_split_funds

SpecAdminTransfer == InitDispute /\ [][NextAdminTransfer]_vars

\* The instructions that demand Config.admin as their signer.
AdminAuthorityOps == ConfigAdminOps \cup AdminOps

\* What a successful accept_admin does, and who may do it.
AcceptStep ==
    Called("accept_admin") =>
        /\ Succeeded <=>
               (config.pending_admin.some /\ last'.caller = config.pending_admin.v)
        /\ Succeeded =>
               /\ config' = [config EXCEPT !.admin = config.pending_admin.v,
                                           !.pending_admin = NoKey]
               /\ config'.admin = last'.caller
               /\ ~config'.pending_admin.some

\* Admin authority is being Config.admin: the admin's call is never answered
\* Unauthorized, everybody else's always is, and changes nothing.
AuthorityStep ==
    (now' = now /\ last'.op \in AdminAuthorityOps /\ AccountsExist(last'.op)) =>
        IF last'.caller = config.admin THEN ~Failed("Unauthorized") ELSE Refused

\* C24 as stated: Config.admin changes only in a successful accept_admin by
\* the pending identity, which becomes the admin; after a successful accept
\* the pending field is empty and the previous admin is no longer the admin,
\* so that the previous admin's update_config, propose_admin and admin_*
\* calls are answered Unauthorized.
C24_PreviousAdminDeposed ==
    [][config.init =>
          /\ config'.admin # config.admin => (Called("accept_admin") /\ Succeeded)
          /\ AcceptStep
          /\ AuthorityStep
          /\ (Called("accept_admin") /\ Succeeded) => config'.admin # config.admin]_vars

\* C24, amended: Config.admin changes only in a successful accept_admin by
\* the pending identity, which becomes the admin, and propose_admin alone
\* never changes it; after a successful accept the pending field is empty
\* and the accepting identity holds admin authority; everybody else, the
\* previous admin included when the accepted identity is another one, is
\* answered Unauthorized by update_config, propose_admin, cancel_admin_transfer
\* and the admin_* instructions.
C24_TwoStepTransfer ==
    [][config.init =>
          /\ config'.admin # config.admin => (Called("accept_admin") /\ Succeeded)
          /\ Called("propose_admin") => config'.admin = config.admin
          /\ AcceptStep
          /\ AuthorityStep]_vars

\* The admin that handed over to another identity was refused an admin_*
\* instruction on the disputed escrow.
C24_Witness ==
    /\ config.admin # EXPECTED_ADMIN /\ ~config.pending_admin.some
    /\ last.op \in AdminOps /\ last.caller = EXPECTED_ADMIN
    /\ last.err = "Unauthorized"
    /\ Frozen /\ vault = escrow.total_amount

\* C25: accept_admin fails with NoPendingAdmin when no transfer is pending
\* and with Unauthorized when the caller is not the pending identity;
\* cancel_admin_transfer, called by the admin, fails with NoPendingAdmin when
\* nothing is pending and otherwise only clears the pending field; a failed
\* call changes nothing.  propose_admin replaces the pending identity, so
\* that after a cancel nobody, and after a later proposal only its candidate,
\* can accept.
C25_PendingTransfer ==
    [][config.init =>
          /\ Called("accept_admin") =>
                 /\ ~config.pending_admin.some => Failed("NoPendingAdmin")
                 /\ (config.pending_admin.some
                         /\ last'.caller # config.pending_admin.v)
                        => Failed("Unauthorized")
                 /\ ~Succeeded => UNCHANGED config
                 /\ (last.op = "cancel_admin_transfer" /\ last.err = "Ok")
                        => Failed("NoPendingAdmin")
          /\ CalledBy("cancel_admin_transfer", config.admin) =>
                 IF config.pending_admin.some
                 THEN /\ Succeeded
                      /\ config' = [config EXCEPT !.pending_admin = NoKey]
                      /\ config'.admin = config.admin
                 ELSE /\ Failed("NoPendingAdmin")
                      /\ UNCHANGED config
          /\ (Called("propose_admin") /\ Succeeded) =>
                 /\ config'.pending_admin.some
                 /\ config' = [config EXCEPT !.pending_admin = config'.pending_admin]]_vars

\* Somebody other than the admin tried to accept while no transfer was
\* pending.
C25_Witness ==
    /\ last.op = "accept_admin" /\ last.err = "NoPendingAdmin"
    /\ last.caller # config.admin /\ last.caller # "hot"
    /\ ~config.pending_admin.some /\ config.admin = EXPECTED_ADMIN

\* ------------------------------------------------------------------------
\* Reclaiming an escrow's accounts
\* ------------------------------------------------------------------------
\* A vault is a token account anybody can transfer into, so a vault can hold
\* tokens in any status.  This specification runs the escrow instructions
\* from every well-formed account content with an empty or a filled vault.
NextAccounts ==
    \/ Tx_fund_escrow
    \/ Tx_release_escrow
    \/ Tx_freeze_escrow
    \/ Tx_refund_escrow
    \/ Tx_cancel_escrow
    \/ Tx_close_escrow
    \/ NextOverrides

SpecAccounts == InitAccounts /\ [][NextAccounts]_vars

\* cancel_escrow or close_escrow, accepting the statuses of `from`.
ReclaimStep(op, from) ==
    Called(op) =>
        /\ Succeeded <=>
               /\ escrow.acct = "open" /\ escrow.status \in from
               /\ last'.caller = escrow.client
               /\ vault = 0
        /\ (escrow.acct = "open" /\ escrow.status \in from
                /\ last'.caller = escrow.client /\ vault # 0)
               => Failed("VaultNotEmpty")
        /\ Succeeded =>
               /\ escrow' = [escrow EXCEPT !.acct = "closed"]
               /\ last'.issued = <<>>
               /\ UNCHANGED <<vault, paid, settlements>>
        /\ ~Succeeded => UNCHANGED escrowVars

\* C26: cancel_escrow succeeds only from Created and close_escrow only from
\* Released or Refunded, each only for the client and only with an empty
\* vault (VaultNotEmpty otherwise); no instruction removes an escrow that is
\* Funded or Frozen, only these two remove an escrow at all, and an escrow
\* that has left Created never is Created again, so a funded escrow is never
\* cancelled.
C26_Reclaim ==
    [][/\ ReclaimStep("cancel_escrow", {"Created"})
       /\ ReclaimStep("close_escrow", {"Released", "Refunded"})
       /\ escrow.acct = "open" =>
              /\ escrow.status \in {"Funded", "Frozen"} => escrow'.acct = "open"
              /\ escrow.status # "Created" => escrow'.status # "Created"
              /\ escrow'.acct # "open" =>
                     /\ last'.op \in {"cancel_escrow", "close_escrow"}
                     /\ escrow'.acct = "closed"]_vars

\* The client was refused closing a released escrow whose vault holds tokens.
C26_Witness ==
    /\ last.op = "close_escrow" /\ last.caller = escrow.client
    /\ last.err = "VaultNotEmpty"
    /\ escrow.acct = "open" /\ escrow.status = "Released" /\ vault > 0

\* ------------------------------------------------------------------------
\* The deadline of a pool
\* ------------------------------------------------------------------------
PoolIsOpen == pool.acct = "open" /\ pool.status \in {"Funded", "Active"}

\* C27: partial_release on a Funded or Active pool whose deadline the clock
\* has passed never succeeds and leaves the pool unchanged, and the platform
\* authority is answered DeadlinePassed whatever the number of releases made
\* and the funds left; at now = deadline the platform authority's release
\* still succeeds while releases are left.
C27_DeadlinePassed ==
    [][(Called("partial_release") /\ PoolIsOpen /\ config.init
            /\ pool.deadline.some) =>
           /\ now > pool.deadline.v =>
                  /\ ~Succeeded
                  /\ last'.issued = <<>>
                  /\ UNCHANGED poolVars
                  /\ last'.caller = config.platform_authority
                         => Failed("DeadlinePassed")
           /\ (now = pool.deadline.v /\ pool.release_count < pool.max_releases
                   /\ last'.caller = config.platform_authority) => Succeeded]_vars

\* After its deadline, a release was asked of a pool that had made all its
\* releases and held less than one release costs.
C27_Witness ==
    /\ PoolIsOpen /\ DeadlineOver /\ Exhausted
    /\ pool.total_funded - pool.total_released < pool.payment_per_worker
    /\ last.op = "partial_release" /\ last.caller = config.platform_authority
    /\ last.err = "DeadlinePassed"

\* ------------------------------------------------------------------------
\* calculate_fee as a function
\* ------------------------------------------------------------------------
\* Amounts around the denominator, the amounts escrows are created with, and
\* the largest words; rates inside and beyond 0..BPS_DENOMINATOR.
FeeAmounts ==
    {0, 1, 9, 10, BPS_DENOMINATOR - 1, BPS_DENOMINATOR, BPS_DENOMINATOR + 1,
     MIN_ESCROW_AMOUNT, MIN_ESCROW_AMOUNT + AmountOdd,
     U64_MAX \div 2, U64_MAX - 1, U64_MAX}
FeeRates ==
    {0, 1, EMPLOYMENT_FEE_BPS, DEFAULT_FEE_BPS, 3333, BPS_DENOMINATOR - 1,
     BPS_DENOMINATOR, BPS_DENOMINATOR + 1, BPS_DENOMINATOR + 2000}

InitFee ==
    /\ config = NoConfig
    /\ escrow = NoEscrow
    /\ vault = 0
    /\ paid = NoPayments
    /\ settlements = 0
    /\ pool = NoPool
    /\ poolVault = 0
    /\ poolPaid = NoPayments
    /\ now = 0
    /\ last = [op |-> "none", caller |-> DefaultPubkey, err |-> "Ok", issued |-> <<>>,
              arg |-> 0, deadline |-> None]
    /\ calc \in [fn : {"calculate_fee"}, amount : FeeAmounts, fee_bps : FeeRates,
                 done : {FALSE}, result : {Overflow}]

Apply_calculate_fee ==
    /\ calc.fn = "calculate_fee" /\ ~calc.done
    /\ calc' = [calc EXCEPT !.done = TRUE,
                            !.result = calculate_fee(calc.amount, calc.fee_bps)]
    /\ UNCHANGED <<config, escrowVars, poolVars, now, last>>

SpecFee == InitFee /\ [][Apply_calculate_fee]_vars

\* C28: what calculate_fee(amount, fee_bps) returns is floor(amount * fee_bps
\* / 10000); for every fee_bps in 0..10000 it returns a value, never
\* Overflow, and the value is at most amount, is 0 for fee_bps = 0, and is no
\* smaller than the value for any smaller rate.
C28_FeeFunction ==
    (calc.fn = "calculate_fee" /\ calc.done) =>
        LET r == calc.result
        IN  /\ r.ok => /\ 0 <= r.v /\ r.v <= U64_MAX
                       /\ IsFloorShare(r.v, calc.amount, calc.fee_bps)
            /\ calc.fee_bps <= 10000 =>
                   /\ r.ok
                   /\ r.v <= calc.amount
                   /\ calc.fee_bps = 0 => r.v = 0
                   /\ \A lower \in FeeRates :
                          lower <= calc.fee_bps =>
                              /\ calculate_fee(calc.amount, lower).ok
                              /\ calculate_fee(calc.amount, lower).v <= r.v

\* The fee of the largest word at a rate just under the whole was computed.
C28_Witness ==
    /\ calc.fn = "calculate_fee" /\ calc.done
    /\ calc.amount = U64_MAX /\ calc.fee_bps = BPS_DENOMINATOR - 1
    /\ calc.result.ok /\ calc.result.v < calc.amount
    /\ calc.result.v > calc.amount \div 2

\* ------------------------------------------------------------------------
\* The split calculator (spec.md 4.1; the repository's source has no split
\* mode, so these two functions follow the specification's description)
\* ------------------------------------------------------------------------
MAX_SPLITS == 8

Split(recipient, weight) == [recipient |-> recipient, weight |-> weight]

RECURSIVE SumWeights(_)
SumWeights(splits) ==
    IF splits = <<>> THEN 0 ELSE Head(splits).weight + SumWeights(Tail(splits))

validate_splits(splits) ==
    IF ~(1 <= Len(splits) /\ Len(splits) <= MAX_SPLITS) THEN "InvalidSplits"
    ELSE IF \E i, j \in 1 .. Len(splits) :
                i # j /\ splits[i].recipient = splits[j].recipient
         THEN "InvalidSplits"
    ELSE IF \E i \in 1 .. Len(splits) : splits[i].weight > BPS_DENOMINATOR
         THEN "InvalidSplits"
    ELSE IF SumWeights(splits) # BPS_DENOMINATOR THEN "InvalidSplits"
    ELSE "Ok"

\* The amounts of the first n splits, each a floor share of the total.
RECURSIVE FloorShares(_, _, _)
FloorShares(total, splits, n) ==
    IF n = 0 THEN <<>>
    ELSE Append(FloorShares(total, splits, n - 1), WideMulDiv(total, splits[n].weight))

RECURSIVE SumSeq(_)
SumSeq(xs) == IF xs = <<>> THEN 0 ELSE Head(xs) + SumSeq(Tail(xs))

\* Faulty variant: the last split gets its floor share too.
distribute_all_floors(total, splits) ==
    IF validate_splits(splits) # "Ok" THEN [ok |-> FALSE, amounts |-> <<>>]
    ELSE [ok |-> TRUE, amounts |-> FloorShares(total, splits, Len(splits))]

distribute(total, splits) ==
    LET previous == FloorShares(total, splits, Len(splits) - 1)
    IN  IF validate_splits(splits) # "Ok" THEN [ok |-> FALSE, amounts |-> <<>>]
        ELSE [ok |-> TRUE, amounts |-> Append(previous, total - SumSeq(previous))]

\* Split sets: recipients r1, r2, ... with the given weights, or all r1.
Recipients == <<"r1", "r2", "r3", "r4", "r5", "r6", "r7", "r8", "r9">>
SplitsOf(weights) == [i \in 1 .. Len(weights) |-> Split(Recipients[i], weights[i])]
SameRecipient(weights) == [i \in 1 .. Len(weights) |-> Split("r1", weights[i])]

ValidWeights ==
    {<<10000>>, <<9000, 1000>>, <<1, 9999>>, <<0, 10000>>, <<10000, 0>>,
     <<9000, 700, 300>>, <<3333, 3333, 3334>>, <<3334, 3333, 3333>>,
     <<1250, 1250, 1250, 1250, 1250, 1250, 1250, 1250>>,
     <<1, 1, 1, 1, 1, 1, 1, 9993>>, <<1429, 1429, 1429, 1429, 1429, 1429, 1426>>}
InvalidWeights ==
    {<<>>, <<9999>>, <<5000, 5001>>, <<10001>>,
     <<1250, 1250, 1250, 1250, 1250, 1250, 1250, 1000, 250>>}

SplitSets ==
    {SplitsOf(w) : w \in ValidWeights \cup InvalidWeights}
        \cup {SameRecipient(<<5000, 5000>>)}

Totals ==
    {0, 1, 3, BPS_DENOMINATOR - 1, MIN_ESCROW_AMOUNT + AmountOdd, 100000000,
     U64_MAX}

InitDistribute ==
    /\ config = NoConfig
    /\ escrow = NoEscrow
    /\ vault = 0
    /\ paid = NoPayments
    /\ settlements = 0
    /\ pool = NoPool
    /\ poolVault = 0
    /\ poolPaid = NoPayments
    /\ now = 0
    /\ last = [op |-> "none", caller |-> DefaultPubkey, err |-> "Ok", issued |-> <<>>,
              arg |-> 0, deadline |-> None]
    /\ calc \in [fn : {"distribute"}, total : Totals, splits : SplitSets,
                 done : {FALSE}, result : {[ok |-> FALSE, amounts |-> <<>>]}]

Apply_distribute ==
    /\ calc.fn = "distribute" /\ ~calc.done
    /\ calc' = [calc EXCEPT !.done = TRUE,
                            !.result = distribute(calc.total, calc.splits)]
    /\ UNCHANGED <<config, escrowVars, poolVars, now, last>>

SpecDistribute == InitDistribute /\ [][Apply_distribute]_vars

\* A valid split set: 1 to 8 entries, distinct recipients, weights summing to
\* exactly 10000.
IsValidSplitSet(splits) ==
    /\ Len(splits) \in 1 .. 8
    /\ \A i, j \in 1 .. Len(splits) :
           splits[i].recipient = splits[j].recipient => i = j
    /\ SumWeights(splits) = 10000

\* C29: for a valid split set and any total, distribute returns one amount
\* per split, each between 0 and total, summing exactly to total; every
\* amount but the last is floor(total * weight / 10000) and the last is what
\* is left of the total.  Splits 9000/700/300 of 100,000,000 give
\* 90,000,000, 7,000,000 and 3,000,000.
C29_Distribute ==
    (calc.fn = "distribute" /\ calc.done /\ IsValidSplitSet(calc.splits)) =>
        LET n == Len(calc.splits)
            amounts == calc.result.amounts
        IN  /\ calc.result.ok
            /\ Len(amounts) = n
            /\ \A i \in 1 .. n : 0 <= amounts[i] /\ amounts[i] <= calc.total
            /\ SumSeq(amounts) = calc.total
            /\ \A i \in 1 .. n - 1 :
                   IsFloorShare(amounts[i], calc.total, calc.splits[i].weight)
            /\ amounts[n] = calc.total - SumSeq(SubSeq(amounts, 1, n - 1))
            /\ (calc.total = 100000000 /\ n = 3 /\ calc.splits[1].weight = 9000
                    /\ calc.splits[2].weight = 700)
                   => amounts = <<90000000, 7000000, 3000000>>

\* Three splits of an odd total: the last one received more than its floor
\* share.
C29_Witness ==
    /\ calc.fn = "distribute" /\ calc.done /\ calc.result.ok
    /\ Len(calc.splits) = 3 /\ calc.total = MIN_ESCROW_AMOUNT + AmountOdd
    /\ ~IsFloorShare(calc.result.amounts[3], calc.total, calc.splits[3].weight)
    /\ SumSeq(calc.result.amounts) = calc.total

\* ------------------------------------------------------------------------
\* Fields fixed at creation
\* ------------------------------------------------------------------------
EscrowFixed ==
    {"escrow_id", "client", "worker", "mint", "vault", "worker_amount",
     "total_amount", "platform_fee_bps", "escrow_type", "deadline"}
PoolFixed ==
    {"escrow_id", "client", "mint", "payment_per_worker", "max_releases",
     "total_funded", "platform_fee_bps", "deadline"}

\* C30: once an escrow exists no instruction changes its escrow_id, client,
\* worker, mint, vault, worker_amount, total_amount, platform_fee_bps,
\* escrow_type or deadline, and once a pool exists none changes its
\* escrow_id, client, mint, payment_per_worker, max_releases, total_funded,
\* platform_fee_bps or deadline.
C30_FixedAtCreation ==
    [][/\ (escrow.acct # "uninit" /\ escrow' # escrow)
              => \A f \in EscrowFixed : escrow'[f] = escrow[f]
       /\ (pool.acct # "uninit" /\ pool' # pool)
              => \A f \in PoolFixed : pool'[f] = pool[f]]_vars

\* An escrow with a deadline went through its whole life: created, funded,
\* refunded after the deadline, closed.
C30_Witness ==
    /\ escrow.acct = "closed" /\ escrow.status = "Refunded"
    /\ escrow.deadline.some /\ now > escrow.deadline.v
    /\ escrow.mint = MintKey /\ escrow.vault = VaultKey
    /\ escrow.total_amount > escrow.worker_amount
    /\ paid.client = escrow.total_amount

\* ------------------------------------------------------------------------
\* The life of an escrow under fair scheduling
\* ------------------------------------------------------------------------
\* One escrow on an initialised config, with every escrow instruction and
\* the clock.  An instruction that fails is rolled back by the host: it
\* changes no account, so for the record it is a step in which nothing
\* happens, and the steps of this specification are the instructions that
\* succeed.  The client keeps submitting release_escrow and the admin keeps
\* submitting the overrides: a release, or an override, that would succeed is
\* not postponed forever.
LifecycleArgs ==
    [worker : {"bob"}, amount : ValidAmounts, escrow_type : EscrowTypes,
     deadline : {None, Some(now + 1)}]

Tx_create_escrow_fair == CreateEscrowWith(LifecycleArgs)

ClientRelease == Tx_release_escrow /\ Succeeded
AdminOverride == NextOverrides /\ Succeeded

InitLifecycle ==
    /\ config = [init |-> TRUE, admin |-> EXPECTED_ADMIN, treasury |-> TreasuryKey,
                 platform_authority |-> "hot", paused |-> FALSE,
                 pending_admin |-> NoKey]
    /\ escrow = NoEscrow
    /\ vault = 0
    /\ paid = NoPayments
    /\ settlements = 0
    /\ pool = NoPool
    /\ poolVault = 0
    /\ poolPaid = NoPayments
    /\ now = 0
    /\ last = [op |-> "none", caller |-> DefaultPubkey, err |-> "Ok", issued |-> <<>>,
              arg |-> 0, deadline |-> None]
    /\ calc = NoCalc

NextLifecycle ==
    \/ Tx_create_escrow_fair /\ Succeeded
    \/ Tx_fund_escrow /\ Succeeded
    \/ Tx_freeze_escrow /\ Succeeded
    \/ Tx_refund_escrow /\ Succeeded
    \/ Tx_cancel_escrow /\ Succeeded
    \/ Tx_close_escrow /\ Succeeded
    \/ ClientRelease
    \/ AdminOverride
    \/ Tick

SpecLifecycle ==
    /\ InitLifecycle
    /\ [][NextLifecycle]_vars
    /\ WF_vars(ClientRelease)
    /\ WF_vars(AdminOverride)

Settled == escrow.status \in {"Released", "Refunded"}

\* close_escrow called by the escrow's client would succeed.
Closable ==
    Run(CloseEscrow(escrow.client), close_escrow(escrow.client), EFail).err = "Ok"

\* C31: under weak fairness of the client's release_escrow and of the
\* admin's overrides, every escrow that is Funded is eventually Released or
\* Refunded, and so is every escrow that is Frozen; a Released or Refunded
\* escrow whose vault is empty can be closed by its client.
C31_Lifecycle ==
    /\ Funded ~> Settled
    /\ Frozen ~> Settled
    /\ [](escrow.acct = "open" /\ Settled /\ vault = 0 => Closable)

\* An escrow without deadline was funded, frozen, refunded by the admin and
\* closed by its client.
C31_Witness ==
    /\ escrow.acct = "closed" /\ escrow.status = "Refunded"
    /\ ~escrow.deadline.some /\ escrow.funded_at.some
    /\ last.op = "close_escrow" /\ last.err = "Ok"

\* ------------------------------------------------------------------------
\* The order of the outbound transfers
\* ------------------------------------------------------------------------
\* The destinations of a sequence of transfers, in the order of issue.
Dests(xs) == [i \in 1 .. Len(xs) |-> xs[i].to]
PaysTo(xs, to) == \E i \in 1 .. Len(xs) : xs[i].to = to
\* Every transfer to `a` is issued before every transfer to `b`.
IssuedBefore(xs, a, b) ==
    \A i, j \in 1 .. Len(xs) : (xs[i].to = a /\ xs[j].to = b) => i < j

WorkerFirstOps == {"release_escrow", "admin_release_to_worker", "partial_release"}

\* C32 as stated: whenever an instruction issues both a treasury fee
\* transfer and a worker payout, the treasury fee transfer is issued first.
C32_TreasuryFirst ==
    (PaysTo(last.issued, "treasury") /\ PaysTo(last.issued, "worker"))
        => IssuedBefore(last.issued, "treasury", "worker")

\* C32 as amended: every instruction issues its transfers in one order of
\* its own.  release_escrow, admin_release_to_worker and partial_release pay
\* the worker and then the treasury; admin_split_funds pays the treasury,
\* then the worker, then the client, leaving out the shares that are zero;
\* every other instruction issues at most one transfer.
C32_OrderPerInstruction ==
    /\ (last.op \in WorkerFirstOps /\ last.err = "Ok")
           => Dests(last.issued) = <<"worker", "treasury">>
    /\ last.op = "admin_split_funds"
           => /\ IssuedBefore(last.issued, "treasury", "worker")
              /\ IssuedBefore(last.issued, "treasury", "client")
              /\ IssuedBefore(last.issued, "worker", "client")
              /\ Len(last.issued) <= 3
              /\ last.err = "Ok" => PaysTo(last.issued, "treasury")
    /\ last.op \notin WorkerFirstOps \cup {"admin_split_funds"}
           => Len(last.issued) <= 1

\* A split paid the treasury, the worker and the client, in this order,
\* after a frozen escrow's dispute.
C32_Witness ==
    /\ last.op = "admin_split_funds" /\ last.err = "Ok"
    /\ Dests(last.issued) = <<"treasury", "worker", "client">>

\* ------------------------------------------------------------------------
\* Empty vaults
\* ------------------------------------------------------------------------
\* C33: when the vault receives nothing but what fund_escrow puts in, the
\* vault of a Created, Released or Refunded escrow is empty in every
\* reachable state, and neither cancel_escrow nor close_escrow ever fails
\* with VaultNotEmpty.
C33_EmptyVault ==
    /\ (escrow.acct = "open" /\ escrow.status \in {"Created", "Released", "Refunded"})
           => vault = 0
    /\ last.op \in {"cancel_escrow", "close_escrow"} => last.err # "VaultNotEmpty"

\* The client closed a released escrow whose vault the release had emptied.
C33_Witness ==
    /\ escrow.acct = "closed" /\ escrow.status = "Released"
    /\ last.op = "close_escrow" /\ last.caller = escrow.client /\ last.err = "Ok"
    /\ paid.client = 0 /\ ~escrow.deadline.some /\ vault = 0

\* ------------------------------------------------------------------------
\* funded_at
\* ------------------------------------------------------------------------
\* C34: a Frozen, Released or Refunded escrow has funded_at set, an escrow
\* becomes Frozen only from Funded, and no instruction ever returns
\* NotFunded.
C34_FundedAtSet ==
    /\ [](/\ escrow.status \in {"Frozen", "Released", "Refunded"}
                 => escrow.funded_at.some
          /\ last.err # "NotFunded")
    /\ [][(escrow'.status = "Frozen" /\ escrow.status # "Frozen")
              => (escrow.status = "Funded" /\ escrow.funded_at.some)]_vars

\* The admin released an escrow that was funded after the clock had
\* advanced, and frozen.
C34_Witness ==
    /\ last.op = "admin_release_to_worker" /\ last.err = "Ok"
    /\ escrow.status = "Released"
    /\ escrow.funded_at.some /\ escrow.funded_at.v > 0

\* ------------------------------------------------------------------------
\* The funds left in a pool
\* ------------------------------------------------------------------------
\* What one release takes out of the pool: the payment and the fee on it.
ReleaseTotal ==
    pool.payment_per_worker
        + calculate_fee(pool.payment_per_worker, pool.platform_fee_bps).v
PoolRemaining == pool.total_funded - pool.total_released

\* C35: a Funded or Active pool with releases left holds at least one
\* release (payment_per_worker plus the fee on it) of unreleased funds, and
\* no partial_release ever returns InsufficientFunds.
C35_FundsForEveryRelease ==
    /\ (PoolIsOpen /\ pool.release_count < pool.max_releases)
           => PoolRemaining >= ReleaseTotal
    /\ last.err # "InsufficientFunds"

\* A pool whose releases are used up holds less than one release, and the
\* platform authority's next partial_release was stopped by the count.
C35_Witness ==
    /\ PoolIsOpen /\ pool.max_releases > 1
    /\ pool.release_count = pool.max_releases
    /\ PoolRemaining > 0 /\ PoolRemaining < ReleaseTotal
    /\ last.op = "partial_release" /\ last.caller = config.platform_authority
    /\ last.err = "MaxReleasesReached"

\* ------------------------------------------------------------------------
\* The tracking fields of a pool
\* ------------------------------------------------------------------------
\* C36: total_released is release_count times one release, that is
\* payment_per_worker plus floor(payment_per_worker * platform_fee_bps /
\* 10000); a Funded pool has executed no release and an Active pool at
\* least one.
C36_Tracking ==
    /\ pool.release_count = 0 => pool.total_released = 0
    /\ pool.release_count > 0 =>
           /\ pool.total_released % pool.release_count = 0
           /\ IsFloorShare(pool.total_released \div pool.release_count
                               - pool.payment_per_worker,
                           pool.payment_per_worker, pool.platform_fee_bps)
    /\ pool.status = "Funded" => pool.release_count = 0
    /\ pool.status = "Active" => pool.release_count >= 1

\* The second release of a pool with an odd payment.
C36_Witness ==
    /\ pool.acct = "open" /\ pool.status = "Active" /\ pool.release_count = 2
    /\ pool.payment_per_worker % BPS_DENOMINATOR # 0
    /\ last.op = "partial_release" /\ last.err = "Ok"
    /\ pool.total_released = 2 * SumAll(last.issued)

\* ------------------------------------------------------------------------
\* The paused platform
\* ------------------------------------------------------------------------
\* The admin pauses and unpauses the platform at any time, next to every
\* record instruction.
PauseUpdates ==
    [new_treasury : {NoKey}, new_platform_authority : {NoKey},
     paused : {Some(TRUE), Some(FALSE)}]

Tx_update_config_pause == UpdateConfigWith(PauseUpdates)

NextPause ==
    \/ Tx_update_config_pause
    \/ OnlyEscrow /\ Tx_create_escrow
    \/ OnlyEscrow /\ Tx_fund_escrow
    \/ OnlyEscrow /\ Tx_release_escrow
    \/ OnlyEscrow /\ Tx_freeze_escrow
    \/ OnlyEscrow /\ Tx_admin_release_to_worker
    \/ OnlyEscrow /\ Tx_admin_refund_to_client
    \/ OnlyEscrow /\ Tx_refund_escrow
    \/ OnlyEscrow /\ Tx_cancel_escrow
    \/ OnlyEscrow /\ Tx_admin_split_funds
    \/ OnlyEscrow /\ Tx_close_escrow
    \/ OnlyPool /\ Tx_create_pool_escrow
    \/ OnlyPool /\ Tx_fund_pool_escrow
    \/ OnlyPool /\ Tx_partial_release
    \/ OnlyPool /\ Tx_close_pool_escrow
    \/ Tick

SpecPause == InitLifecycle /\ [][NextPause]_vars

\* What every instruction other than the two create instructions would
\* return, called by `c` (and, for the split, with `bps`) in this state.
RecordResults(c, bps) ==
    <<Run(FundEscrow(c), fund_escrow(c), EFail),
      Run(ReleaseEscrow(c), release_escrow(c), EFail),
      Run(FreezeEscrow(c), freeze_escrow(c), EFail),
      Run(AdminActionCtx(c), admin_release_to_worker(c), EFail),
      Run(AdminRefundCtx(c), admin_refund_to_client(c), EFail),
      Run(RefundEscrow(c), refund_escrow(c), EFail),
      Run(CancelEscrow(c), cancel_escrow(c), EFail),
      Run(AdminSplit(c), admin_split_funds(c, bps), EFail),
      Run(CloseEscrow(c), close_escrow(c), EFail),
      Run(FundPoolEscrow(c), fund_pool_escrow(c), PFail),
      Run(PartialRelease(c), partial_release(c), PFail),
      Run(ClosePoolEscrow(c), close_pool_escrow(c), PFail)>>

\* C37: while the platform is paused create_escrow and create_pool_escrow
\* fail, with PlatformPaused unless the account constraints already refuse
\* the call, and create nothing; pausing or unpausing changes the outcome
\* (error, record, vault balance, transfers) of no other record instruction,
\* whoever calls it.
C37_PauseBlocksCreateOnly ==
    [][/\ (now' = now /\ last'.op \in CreateOps /\ config.paused) =>
              /\ ~Succeeded
              /\ UNCHANGED <<escrowVars, poolVars>>
              /\ last'.err \in {"PlatformPaused", "AccountAlreadyInUse",
                                "SameClientWorker"}
              /\ (IF last'.op = "create_escrow" THEN escrow.acct = "uninit"
                                                ELSE pool.acct = "uninit")
                     => last'.err \in {"PlatformPaused", "SameClientWorker"}
       /\ config'.paused # config.paused =>
              \A c \in Signers, bps \in WorkerBps :
                  RecordResults(c, bps)' = RecordResults(c, bps)]_vars

\* On a paused platform the client released a funded escrow.
C37_Witness ==
    /\ config.paused
    /\ last.op = "release_escrow" /\ last.err = "Ok"
    /\ escrow.status = "Released" /\ paid.worker = escrow.worker_amount

\* ------------------------------------------------------------------------
\* The treasury identity
\* ------------------------------------------------------------------------
\* The config instructions alone, from a config that does not exist yet,
\* with update_config given every kind of new treasury: none, the old one,
\* another identity, the zero key.
TreasuryUpdates ==
    [new_treasury : {NoKey, Some(TreasuryKey), Some("alice"), Some(DefaultPubkey)},
     new_platform_authority : {NoKey}, paused : {NoBool}]

Tx_update_config_treasury == UpdateConfigWith(TreasuryUpdates)

NextConfig ==
    \/ Tx_initialize_config
    \/ Tx_update_config_treasury
    \/ Tx_propose_admin_any
    \/ Tx_accept_admin
    \/ Tx_cancel_admin_transfer

SpecConfig == Init /\ [][NextConfig]_vars

\* C38: once the config is initialised its treasury is never the zero key,
\* whatever update_config and admin-transfer instructions follow.
C38_TreasuryNeverNull == config.init => config.treasury # DefaultPubkey

\* ------------------------------------------------------------------------
\* The client's settlement against the worker's freeze
\* ------------------------------------------------------------------------
\* The host applies one instruction at a time, so two instructions submitted
\* against the same Funded escrow are applied in one order or the other.
ClientSettleOps == {"release_escrow", "refund_escrow"}

\* C39: of the client's release_escrow or refund_escrow and the worker's
\* freeze_escrow on a Funded escrow, the one applied first takes effect and
\* the other then fails with InvalidStatus and changes nothing: each of them
\* succeeds only on a Funded escrow, an escrow that has left Funded never
\* returns to it, and funds are moved at most once.
C39_SettleOrFreeze ==
    /\ [](settlements <= 1)
    /\ [][/\ (Called("freeze_escrow") /\ Succeeded) =>
                 /\ Funded /\ settlements = 0
                 /\ escrow'.status = "Frozen" /\ vault' = vault /\ paid' = paid
          /\ (now' = now /\ last'.op \in ClientSettleOps /\ Succeeded) =>
                 /\ Funded /\ last'.caller = escrow.client
                 /\ escrow'.status \in {"Released", "Refunded"}
                 /\ settlements' = 1
          /\ (Called("freeze_escrow") /\ config.init /\ escrow.acct = "open"
                  /\ escrow.status \in {"Released", "Refunded"}) =>
                 /\ Failed("InvalidStatus")
                 /\ last'.issued = <<>> /\ UNCHANGED escrowVars
          /\ (now' = now /\ last'.op \in ClientSettleOps /\ Frozen
                  /\ last'.caller = escrow.client) =>
                 /\ Failed("InvalidStatus")
                 /\ last'.issued = <<>> /\ UNCHANGED escrowVars
          /\ (escrow.acct # "uninit" /\ escrow.status # "Created"
                  /\ escrow.status # "Funded") => escrow'.status # "Funded"]_vars

\* The client's refund after the deadline was applied first; the worker's
\* freeze came second and was refused.
C39_Witness ==
    /\ escrow.acct = "open" /\ escrow.status = "Refunded" /\ settlements = 1
    /\ paid.client = escrow.total_amount /\ now > escrow.deadline.v
    /\ last.op = "freeze_escrow" /\ last.caller = escrow.worker
    /\ last.err = "InvalidStatus"

====
